---- MODULE Spec2Model ----
(***************************************************************************)
(* Chan-theory analysis of kordenlu/backtrader.                            *)
(*                                                                         *)
(*   ChartAnalyzer        (src/samples/chan/hub.py): the batch analyzer,   *)
(*       run once by its constructor over a preloaded bar table:           *)
(*       _handle_inclusive_k_lines, _identify_fractals,                    *)
(*       _construct_strokes, _identify_hubs.                               *)
(*   ChanTheoryIndicator  (src/backtrader/indicators/chan_theory.py): the  *)
(*       streaming indicator, whose next() is called once per bar.         *)
(*                                                                         *)
(* Indices are the Python (0-based) indices of the source; At(s, k) reads  *)
(* element k of a Python list modelled as a TLA+ sequence.  A timestamp is *)
(* modelled by the position of the bar in the raw series.                  *)
(***************************************************************************)
EXTENDS Integers, Sequences, FiniteSets, TLC

\* ------------------------------------------------------------------ bounds
\* Prices are 1..MaxPrice (only their order matters to the code).
MaxPrice == 3
\* Length of the raw bar series handed to ChartAnalyzer.
MaxBars == 5
\* Length of the fractal list handed to _construct_strokes.
MaxFractals == 4
\* Fractal prices are 1..MaxFractalPrice.
MaxFractalPrice == 4
\* Length of the fractal list behind the stroke list handed to _identify_hubs.
MaxHubFractals == 6
\* Number of bars fed to ChanTheoryIndicator.next.
MaxFeed == 5
\* Number of fractals confirmed by ChanTheoryIndicator.next.
MaxIndFractals == 4
\* Length of the bar series the driver feeds to both implementations.
MaxSeries == 6
\* Length of the fractal list handed to _identify_macd_divergence, and its
\* prices 1..MaxDivPrice.
MaxDivFractals == 4
MaxDivPrice == 2
\* Number of fractals confirmed by ChanTheoryIndicator.next when its signal
\* lines are followed.
MaxSigFractals == 5
\* Prices of those fractals are 1..MaxSigPrice.
MaxSigPrice == 4
\* Length of the bar series that is analysed a second time.
MaxRerun == 5
\* Number of bars a GridStrategy run is followed for.
MaxGridBars == 4
\* Number of bars a GridStrategy run with a preset base price is followed
\* for.
MaxGridRunBars == 11
\* Largest number of shares of one stock in the broker account.
MaxShares == 2
\* Number of rounds the sync thread of LiveTradingBroker is followed for.
MaxSyncs == 2

Prices == 1..MaxPrice

\* fractal_len values analysed (3 is the default of both classes).
FractalLens == {2, 3}

\* hub_strokes values analysed (3 is the default of both classes).
HubStrokes == {2, 3}

\* ------------------------------------------------------------------ state
VARIABLES
    fractal_len,        \* parameter fractal_len
    hub_strokes,        \* parameter hub_strokes
    pc,                 \* which method of ChartAnalyzer.__init__ is running
    data,               \* ChartAnalyzer: self.data / processed_data
    direction,          \* _handle_inclusive_k_lines: direction
    i,                  \* loop index of the running method
    fractals,           \* ChartAnalyzer.fractals
    current_direction,  \* _construct_strokes: current_direction
    current_start,      \* _construct_strokes: current_start
    strokes,            \* ChartAnalyzer.strokes
    hubs,               \* ChartAnalyzer.hubs
    hub,                \* _identify_hubs: the hub being extended
    highs,              \* _identify_hubs: highs (sorted, of the window)
    lows,               \* _identify_hubs: lows (sorted, of the window)
    next_idx,           \* _identify_hubs: next_idx
    macd,               \* _identify_macd_divergence: macd, by row label
    divergences,        \* ChartAnalyzer.divergences
    feed,               \* ChanTheoryIndicator: self.data (the bars so far)
    count,              \* ChanTheoryIndicator.count
    fractal_data,       \* ChanTheoryIndicator.fractal_data
    ind_strokes,        \* ChanTheoryIndicator.strokes
    last_direction,     \* ChanTheoryIndicator.last_direction
    ind_hubs,           \* ChanTheoryIndicator.hubs
    lines,              \* ChanTheoryIndicator.lines at the current bar
    prev_counts,        \* the driver's record of the previous run's counts
    tape,               \* the bar series being analysed a second time
    first_run,          \* what the first analysis of that series produced
    position,           \* ChanTheoryStrategy: self.position.size
    placed,             \* ChanTheoryStrategy.next: its buy()/sell() calls
    grid_pc,            \* GridStrategy: "new", "running" or "stopped"
    p_base_price,       \* GridStrategy: parameter base_price
    base_price,         \* GridStrategy.base_price
    grid_lines,         \* GridStrategy.grid_lines
    current_position,   \* GridStrategy.current_position
    grid_order,         \* GridStrategy.order
    buyprice,           \* GridStrategy.buyprice
    grid_positions,     \* GridStrategy.grid_positions
    total_position,     \* GridStrategy.total_position
    grid_position,      \* GridStrategy: self.position.size
    cash,               \* GridStrategy: self.broker.getcash()
    dataclose,          \* GridStrategy: self.dataclose, the closes so far
    queue,              \* the broker's orders not yet notified
    trader,             \* LiveTradingBroker.trader
    account,            \* the broker account: shares held, by stock code
    self_cash,          \* LiveTradingBroker._cash
    self_value,         \* LiveTradingBroker._value
    self_positions,     \* LiveTradingBroker._positions
    sync_pc,            \* where the sync thread is in its loop
    positions,          \* _sync_positions: positions
    pos_k,              \* _sync_positions: place of the for loop in positions
    last_sync,          \* LiveTradingBroker.last_sync: rounds completed
    got                 \* what getposition returned last, and for which code

batchVars == <<pc, data, direction, i, fractals, current_direction,
               current_start, strokes, hubs, hub, highs, lows, next_idx,
               macd, divergences>>
paramVars == <<fractal_len, hub_strokes>>
indVars == <<feed, count, fractal_data, ind_strokes, last_direction, ind_hubs,
             lines>>
strategyVars == <<position, placed>>
gridVars == <<grid_pc, p_base_price, base_price, grid_lines, current_position,
              grid_order, buyprice, grid_positions, total_position,
              grid_position, cash, dataclose, queue>>
liveVars == <<trader, account, self_cash, self_value, self_positions, sync_pc,
              positions, pos_k, last_sync, got>>
driverVars == <<prev_counts, tape, first_run, strategyVars, gridVars,
                liveVars>>
vars == <<paramVars, batchVars, indVars, driverVars>>

\* ---------------------------------------------------------------- helpers
\* cerebro.broker.setcash(100000.0) (test_grid_strategy.py 10).
startingcash == 100000

\* GridStrategy.params, position_size (grid_strategy.py 10).
position_size == 100

\* Python's None for a price and for an order of GridStrategy.
NoPrice == 0 - 1
NoOrder == [side |-> "None", size |-> 0]

At(s, k) == s[k + 1]

Max2(a, b) == IF a >= b THEN a ELSE b
Min2(a, b) == IF a <= b THEN a ELSE b

\* Python's None for a dict-valued local.
NoFractal == [type |-> "NONE", index |-> 0 - 1, price |-> 0, time |-> 0 - 1]
NoHub == [top |-> 0, bottom |-> 0, start_index |-> 0 - 1, end_index |-> 0 - 1,
          start_time |-> 0 - 1, end_time |-> 0 - 1, strokes |-> 0]

\* A bar: High >= Low.
BarValues == {b \in [High : Prices, Low : Prices] : b.Low <= b.High}

\* The raw table: rows in timestamp order, row k carrying timestamp k.
\* The code copies Open and Close and adds Volume without ever comparing
\* them, so each row gets values that tell the rows apart: Open and Close
\* are the row's timestamp, and Volume is 2^timestamp, so that a sum of
\* volumes names the rows that were added.
Stamp(f) ==
    [k \in 1..Len(f) |->
        [High |-> f[k].High, Low |-> f[k].Low, t |-> k - 1,
         Open |-> k - 1, Close |-> k - 1, Volume |-> 2 ^ (k - 1)]]

\* The raw tables of at most n rows.
IsRawSeries(d, n) ==
    \E m \in 0..n : \E f \in [1..m -> BarValues] : d = Stamp(f)

\* ------------------------------------------- _handle_inclusive_k_lines
\* hub.py 87-91
HasInclusionAnd(prev_k, curr_k) ==
    /\ (curr_k.High <= prev_k.High /\ curr_k.Low >= prev_k.Low)
    /\ (curr_k.High >= prev_k.High /\ curr_k.Low <= prev_k.Low)

HasInclusion(prev_k, curr_k) ==
    \/ (curr_k.High <= prev_k.High /\ curr_k.Low >= prev_k.Low)
    \/ (curr_k.High >= prev_k.High /\ curr_k.Low <= prev_k.Low)

\* hub.py 95-128: the values written to row i - 1, which keeps its label
\* and its Open.
MergeKExtremes(dir, prev_k, curr_k) ==
    [High   |-> Max2(prev_k.High, curr_k.High),
     Low    |-> Min2(prev_k.Low, curr_k.Low),
     t      |-> prev_k.t,
     Open   |-> prev_k.Open,
     Close  |-> IF dir = "UP"
                THEN IF Max2(prev_k.High, curr_k.High) = curr_k.High
                     THEN curr_k.Close ELSE prev_k.Close
                ELSE IF Min2(prev_k.Low, curr_k.Low) = curr_k.Low
                     THEN curr_k.Close ELSE prev_k.Close,
     Volume |-> prev_k.Volume + curr_k.Volume]

MergeKAlwaysDown(dir, prev_k, curr_k) ==
    [High   |-> Min2(prev_k.High, curr_k.High),
     Low    |-> Min2(prev_k.Low, curr_k.Low),
     t      |-> prev_k.t,
     Open   |-> prev_k.Open,
     Close  |-> IF Min2(prev_k.Low, curr_k.Low) = curr_k.Low
                THEN curr_k.Close ELSE prev_k.Close,
     Volume |-> prev_k.Volume + curr_k.Volume]

MergeK(dir, prev_k, curr_k) ==
    IF dir = "UP"
    THEN LET new_high == Max2(prev_k.High, curr_k.High)
             new_low == Max2(prev_k.Low, curr_k.Low)
         IN  [High   |-> new_high,
              Low    |-> new_low,
              t      |-> prev_k.t,
              Open   |-> prev_k.Open,
              Close  |-> IF new_high = curr_k.High
                         THEN curr_k.Close ELSE prev_k.Close,
              Volume |-> prev_k.Volume + curr_k.Volume]
    ELSE LET new_high == Min2(prev_k.High, curr_k.High)
             new_low == Min2(prev_k.Low, curr_k.Low)
         IN  [High   |-> new_high,
              Low    |-> new_low,
              t      |-> prev_k.t,
              Open   |-> prev_k.Open,
              Close  |-> IF new_low = curr_k.Low
                         THEN curr_k.Close ELSE prev_k.Close,
              Volume |-> prev_k.Volume + curr_k.Volume]

TurnUpOnly(dir, prev_k, curr_k) ==
    IF curr_k.High > prev_k.High /\ curr_k.Low > prev_k.Low THEN "UP"
    ELSE dir

\* hub.py 136-139
Turn(dir, prev_k, curr_k) ==
    IF curr_k.High > prev_k.High /\ curr_k.Low > prev_k.Low THEN "UP"
    ELSE IF curr_k.High < prev_k.High /\ curr_k.Low < prev_k.Low THEN "DOWN"
    ELSE dir

\* processed_data with row i-1 replaced by the merge and row i dropped.
MergeRows(d, k, merged) ==
    [j \in 1..(Len(d) - 1) |->
        IF j < k THEN d[j] ELSE IF j = k THEN merged ELSE d[j + 1]]

\* One iteration of the while loop (hub.py 81-142).
HandleInclusiveKLines ==
    /\ pc = "inclusive"
    /\ Len(data) >= 2
    /\ i < Len(data)
    /\ LET prev_k == At(data, i - 1)
           curr_k == At(data, i)
       IN  IF HasInclusion(prev_k, curr_k)
           THEN /\ data' = MergeRows(data, i, MergeK(direction, prev_k, curr_k))
                /\ UNCHANGED <<direction, i>>
           ELSE /\ direction' = Turn(direction, prev_k, curr_k)
                /\ i' = i + 1
                /\ UNCHANGED data
    /\ UNCHANGED <<pc, fractals, current_direction, current_start, strokes,
                   hubs, hub, highs, lows, next_idx, macd, divergences,
                   paramVars, indVars, driverVars>>

\* The early return (hub.py 69-71) or the end of the loop (hub.py 144-146);
\* __init__ goes on to _identify_fractals, whose loop starts at
\* fractal_len - 1 (hub.py 157).
HandleInclusiveDone ==
    /\ pc = "inclusive"
    /\ (Len(data) < 2 \/ i >= Len(data))
    /\ pc' = "fractals"
    /\ i' = fractal_len - 1
    /\ UNCHANGED <<data, direction, fractals, current_direction, current_start,
                   strokes, hubs, hub, highs, lows, next_idx, macd, divergences,
                   paramVars, indVars, driverVars>>

\* ---------------------------------------------------- _identify_fractals
\* hub.py 159: the window centred on row c (0-based rows c-(n-1) .. c+n-1).
Window(d, c, n) == SubSeq(d, c - (n - 1) + 1, c + n)

\* hub.py 163-168
IsTopNonStrict(window, mid_idx) ==
    \A j \in 0..(Len(window) - 1) :
        j # mid_idx => ~(At(window, j).High > At(window, mid_idx).High)

IsTop(window, mid_idx) ==
    \A j \in 0..(Len(window) - 1) :
        j # mid_idx => ~(At(window, j).High >= At(window, mid_idx).High)

\* hub.py 171-176
IsBottom(window, mid_idx) ==
    \A j \in 0..(Len(window) - 1) :
        j # mid_idx => ~(At(window, j).Low <= At(window, mid_idx).Low)

\* hub.py 179-196: the fractal recorded for row c, as a list of 0 or 1 dicts.
FractalAt(d, c, n) ==
    LET window == Window(d, c, n)
        mid_idx == n - 1
    IN  IF IsTop(window, mid_idx)
        THEN <<[type |-> "TOP", index |-> c,
                price |-> At(window, mid_idx).High, time |-> At(d, c).t]>>
        ELSE IF IsBottom(window, mid_idx)
        THEN <<[type |-> "BOTTOM", index |-> c,
                price |-> At(window, mid_idx).Low, time |-> At(d, c).t]>>
        ELSE <<>>

\* One iteration of the for loop (hub.py 157-196).
IdentifyFractals ==
    /\ pc = "fractals"
    /\ Len(data) >= 2 * fractal_len - 1
    /\ i < Len(data) - fractal_len + 1
    /\ fractals' = fractals \o FractalAt(data, i, fractal_len)
    /\ i' = i + 1
    /\ UNCHANGED <<pc, data, direction, current_direction, current_start,
                   strokes, hubs, hub, highs, lows, next_idx, macd, divergences,
                   paramVars, indVars, driverVars>>

\* The early return (hub.py 153-155) or the end of the loop; __init__ goes
\* on to _construct_strokes, which starts from fractals[0] (hub.py 209-213).
IdentifyFractalsDone ==
    /\ pc = "fractals"
    /\ (Len(data) < 2 * fractal_len - 1 \/ i >= Len(data) - fractal_len + 1)
    /\ pc' = "strokes"
    /\ i' = 1
    /\ current_direction' = "None"
    /\ current_start' = IF Len(fractals) >= 2 THEN At(fractals, 0) ELSE NoFractal
    /\ UNCHANGED <<data, direction, fractals, strokes, hubs, hub, highs, lows,
                   next_idx, macd, divergences,
                   paramVars, indVars, driverVars>>


\* ---------------------------------------------------- _construct_strokes
\* hub.py 217-222: the direction of the first stroke.
FirstDirection(dir, first, current) ==
    IF dir = "None" /\ current.type # first.type
    THEN (IF first.type = "TOP" THEN "DOWN" ELSE "UP")
    ELSE dir

MoreExtremeOrEqual(dir, start, current) ==
    \/ (dir = "UP" /\ current.price >= start.price)
    \/ (dir = "DOWN" /\ current.price <= start.price)

\* hub.py 226-232: a same-type fractal replaces the anchor.
MoreExtreme(dir, start, current) ==
    \/ (dir = "UP" /\ current.price > start.price)
    \/ (dir = "DOWN" /\ current.price < start.price)

\* hub.py 237-246
ValidStrokeNonStrict(dir, start, current) ==
    IF dir = "UP"
    THEN current.price >= start.price
    ELSE current.price <= start.price

ValidStroke(dir, start, current) ==
    IF dir = "UP"
    THEN current.price > start.price
    ELSE current.price < start.price

NewStrokeSwapped(dir, start, current) ==
    [direction   |-> dir,
     start_index |-> start.index,
     end_index   |-> current.index,
     start_price |-> start.price,
     end_price   |-> current.price,
     start_time  |-> start.time,
     end_time    |-> current.time,
     high        |-> IF dir = "UP" THEN start.price ELSE current.price,
     low         |-> IF dir = "UP" THEN current.price ELSE start.price]

\* hub.py 250-266
NewStroke(dir, start, current) ==
    [direction   |-> dir,
     start_index |-> start.index,
     end_index   |-> current.index,
     start_price |-> start.price,
     end_price   |-> current.price,
     start_time  |-> start.time,
     end_time    |-> current.time,
     high        |-> IF dir = "UP" THEN current.price ELSE start.price,
     low         |-> IF dir = "UP" THEN start.price ELSE current.price]

FlipKept(dir) == dir

\* hub.py 271-275
Flip(dir) == IF dir = "DOWN" THEN "UP" ELSE "DOWN"

\* The body of the for loop (hub.py 214-276) for fractal `current`, on the
\* locals and the stroke list st = [current_direction, current_start,
\* strokes].
StrokeStep(st, first, current) ==
    LET dir == FirstDirection(st.current_direction, first, current)
    IN  IF current.type = st.current_start.type
        THEN [current_direction |-> dir,
              current_start |->
                  IF MoreExtreme(dir, st.current_start, current)
                  THEN current ELSE st.current_start,
              strokes |-> st.strokes]
        ELSE IF ValidStroke(dir, st.current_start, current)
        THEN [current_direction |-> Flip(dir),
              current_start |-> current,
              strokes |-> Append(st.strokes,
                                 NewStroke(dir, st.current_start, current))]
        ELSE [current_direction |-> dir,
              current_start |-> st.current_start,
              strokes |-> st.strokes]

\* One iteration of the for loop (hub.py 213-276).
ConstructStrokes ==
    /\ pc = "strokes"
    /\ Len(fractals) >= 2
    /\ i < Len(fractals)
    /\ LET st == StrokeStep([current_direction |-> current_direction,
                             current_start |-> current_start,
                             strokes |-> strokes],
                            At(fractals, 0), At(fractals, i))
       IN  /\ current_direction' = st.current_direction
           /\ current_start' = st.current_start
           /\ strokes' = st.strokes
    /\ i' = i + 1
    /\ UNCHANGED <<pc, data, direction, fractals, hubs, hub, highs, lows,
                   next_idx, macd, divergences,
                   paramVars, indVars, driverVars>>

\* The early return (hub.py 204-206) or the end of the loop; __init__ goes
\* on to _identify_hubs, whose search starts at stroke 0 (hub.py 289).
ConstructStrokesDone ==
    /\ pc = "strokes"
    /\ (Len(fractals) < 2 \/ i >= Len(fractals))
    /\ pc' = "hubs"
    /\ i' = 0
    /\ UNCHANGED <<data, direction, fractals, current_direction, current_start,
                   strokes, hubs, hub, highs, lows, next_idx, macd, divergences,
                   paramVars, indVars, driverVars>>

\* -------------------------------------------------------- _identify_hubs
\* list.sort(): s in ascending order.
RECURSIVE SortAsc(_)
SortAsc(s) ==
    IF Len(s) <= 1 THEN s
    ELSE LET m == CHOOSE k \in 1..Len(s) : \A j \in 1..Len(s) : s[k] <= s[j]
             rest == [j \in 1..(Len(s) - 1) |-> IF j < m THEN s[j] ELSE s[j + 1]]
         IN  <<s[m]>> \o SortAsc(rest)

\* list.sort(reverse=True)
SortDesc(s) ==
    LET a == SortAsc(s) IN [j \in 1..Len(s) |-> a[Len(s) + 1 - j]]

\* hub.py 295-303 and 329-335: the bounds computed from lists of highs and
\* lows: the element at Python index 1 of each sorted list.
HubTopHighest(hs) == At(SortDesc(hs), 0)

HubTop(hs) == At(SortDesc(hs), 1)
HubBottom(ls) == At(SortAsc(ls), 1)

\* hub.py 292
StrokeWindow(k) == SubSeq(strokes, k + 1, k + hub_strokes)

Highs(w) == [j \in 1..Len(w) |-> w[j].high]
Lows(w) == [j \in 1..Len(w) |-> w[j].low]

\* hub.py 308-316
NewHub(w) ==
    [top         |-> HubTop(Highs(w)),
     bottom      |-> HubBottom(Lows(w)),
     start_index |-> w[1].start_index,
     end_index   |-> w[Len(w)].end_index,
     start_time  |-> w[1].start_time,
     end_time    |-> w[Len(w)].end_time,
     strokes     |-> hub_strokes]

\* One iteration of the outer while loop up to the inner loop
\* (hub.py 290-319, 357-359).
IdentifyHubs ==
    /\ pc = "hubs"
    /\ Len(strokes) >= hub_strokes
    /\ i <= Len(strokes) - hub_strokes
    /\ LET w == StrokeWindow(i)
       IN  IF HubTop(Highs(w)) > HubBottom(Lows(w))
           THEN /\ hub' = NewHub(w)
                /\ highs' = SortDesc(Highs(w))
                /\ lows' = SortAsc(Lows(w))
                /\ next_idx' = i + hub_strokes
                /\ pc' = "extend"
                /\ UNCHANGED i
           ELSE /\ i' = i + 1
                /\ UNCHANGED <<hub, highs, lows, next_idx, pc>>
    /\ UNCHANGED <<data, direction, fractals, current_direction, current_start,
                   strokes, hubs, macd, divergences,
                   paramVars, indVars, driverVars>>

\* hub.py 324-327
OverlapsFromBelow(h, next_stroke) ==
    next_stroke.low <= h.top

Overlaps(h, next_stroke) ==
    next_stroke.low <= h.top /\ next_stroke.high >= h.bottom

NewHubTopLowest(hs, next_stroke) ==
    At(SortAsc(hs \o <<next_stroke.high>>), 0)

\* hub.py 329-335: the recomputed bounds
NewHubTop(hs, next_stroke) == HubTop(hs \o <<next_stroke.high>>)
NewHubBottom(ls, next_stroke) == HubBottom(ls \o <<next_stroke.low>>)

\* hub.py 320-337: the inner loop goes on with the stroke at next_idx
Absorbs ==
    /\ next_idx < Len(strokes)
    /\ Overlaps(hub, At(strokes, next_idx))
    /\ NewHubTop(highs, At(strokes, next_idx))
          > NewHubBottom(lows, At(strokes, next_idx))

ExtendHubResumeNextStroke ==
    /\ pc = "extend"
    /\ IF Absorbs
       THEN LET next_stroke == At(strokes, next_idx)
            IN  /\ hub' = [hub EXCEPT
                              !.top = NewHubTop(highs, next_stroke),
                              !.bottom = NewHubBottom(lows, next_stroke),
                              !.end_index = next_stroke.end_index,
                              !.end_time = next_stroke.end_time,
                              !.strokes = @ + 1]
                /\ next_idx' = next_idx + 1
                /\ UNCHANGED <<hubs, i, pc>>
       ELSE /\ hubs' = Append(hubs, hub)
            /\ i' = i + 1
            /\ pc' = "hubs"
            /\ UNCHANGED <<hub, next_idx>>
    /\ UNCHANGED <<data, direction, fractals, current_direction, current_start,
                   strokes, highs, lows, macd, divergences,
                   paramVars, indVars, driverVars>>

\* One iteration of the inner while loop (hub.py 320-350) and, when it
\* ends, the recording of the hub (hub.py 353-356).
ExtendHub ==
    /\ pc = "extend"
    /\ IF Absorbs
       THEN LET next_stroke == At(strokes, next_idx)
            IN  /\ hub' = [hub EXCEPT
                              !.top = NewHubTop(highs, next_stroke),
                              !.bottom = NewHubBottom(lows, next_stroke),
                              !.end_index = next_stroke.end_index,
                              !.end_time = next_stroke.end_time,
                              !.strokes = @ + 1]
                /\ next_idx' = next_idx + 1
                /\ UNCHANGED <<hubs, i, pc>>
       ELSE /\ hubs' = Append(hubs, hub)
            /\ i' = next_idx
            /\ pc' = "hubs"
            /\ UNCHANGED <<hub, next_idx>>
    /\ UNCHANGED <<data, direction, fractals, current_direction, current_start,
                   strokes, highs, lows, macd, divergences,
                   paramVars, indVars, driverVars>>

\* The early return (hub.py 284-286) or the end of the outer loop;
\* __init__ goes on to _identify_macd_divergence.
IdentifyHubsDone ==
    /\ pc = "hubs"
    /\ (Len(strokes) < hub_strokes \/ i > Len(strokes) - hub_strokes)
    /\ pc' = "divergence"
    /\ UNCHANGED <<data, direction, i, fractals, current_direction,
                   current_start, strokes, hubs, hub, highs, lows, next_idx,
                   macd, divergences,
                   paramVars, indVars, driverVars>>

\* --------------------------------------------- _identify_macd_divergence
\* The values the oscillator can take (only their order matters).
Osc == {1, 2}

\* hub.py 385-386: the fractals of one type, in list order.
FractalsOfType(fr, ty) == SelectSeq(fr, LAMBDA f : f.type = ty)

\* hub.py 396, 409, 423, 436: macd[self.data.index[f["index"]]], the
\* oscillator at the row of fractal f.
MacdAt(f) == macd[f.index]

\* hub.py 401-411, 428-438
Divergence(ty, prev, curr) ==
    [type |-> ty,
     first_idx |-> prev.index, second_idx |-> curr.index,
     first_time |-> prev.time, second_time |-> curr.time,
     first_price |-> prev.price, second_price |-> curr.price,
     first_macd |-> MacdAt(prev), second_macd |-> MacdAt(curr)]

\* hub.py 394-398
IsTopDivergencePriceOnly(prev, curr) ==
    curr.price > prev.price

IsTopDivergence(prev, curr) ==
    curr.price > prev.price /\ MacdAt(curr) <= MacdAt(prev)

\* hub.py 421-425
IsBottomDivergence(prev, curr) ==
    curr.price < prev.price /\ MacdAt(curr) >= MacdAt(prev)

\* hub.py 374-386: the oscillator is computed over the rows (here: one
\* value of Osc for the row of every fractal) and the result list is reset.
BeginMacdDivergence ==
    /\ pc = "divergence"
    /\ macd' \in [{fractals[k].index : k \in 1..Len(fractals)} -> Osc]
    /\ divergences' = <<>>
    /\ i' = 1
    /\ pc' = "top_divergence"
    /\ UNCHANGED <<data, direction, fractals, current_direction, current_start,
                   strokes, hubs, hub, highs, lows, next_idx,
                   paramVars, indVars, driverVars>>

\* One iteration of the loop over the TOP fractals (hub.py 389-413).
IdentifyTopDivergence ==
    /\ pc = "top_divergence"
    /\ i < Len(FractalsOfType(fractals, "TOP"))
    /\ LET curr == At(FractalsOfType(fractals, "TOP"), i)
           prev == At(FractalsOfType(fractals, "TOP"), i - 1)
       IN  divergences' =
               IF IsTopDivergence(prev, curr)
               THEN Append(divergences, Divergence("TOP", prev, curr))
               ELSE divergences
    /\ i' = i + 1
    /\ UNCHANGED <<pc, data, direction, fractals, current_direction,
                   current_start, strokes, hubs, hub, highs, lows, next_idx,
                   macd, paramVars, indVars, driverVars>>

\* The end of the loop over the TOP fractals; the loop over the BOTTOM
\* fractals starts at 1 (hub.py 416).
IdentifyTopDivergenceDone ==
    /\ pc = "top_divergence"
    /\ i >= Len(FractalsOfType(fractals, "TOP"))
    /\ pc' = "bottom_divergence"
    /\ i' = 1
    /\ UNCHANGED <<data, direction, fractals, current_direction, current_start,
                   strokes, hubs, hub, highs, lows, next_idx, macd, divergences,
                   paramVars, indVars, driverVars>>

\* One iteration of the loop over the BOTTOM fractals (hub.py 416-440).
IdentifyBottomDivergence ==
    /\ pc = "bottom_divergence"
    /\ i < Len(FractalsOfType(fractals, "BOTTOM"))
    /\ LET curr == At(FractalsOfType(fractals, "BOTTOM"), i)
           prev == At(FractalsOfType(fractals, "BOTTOM"), i - 1)
       IN  divergences' =
               IF IsBottomDivergence(prev, curr)
               THEN Append(divergences, Divergence("BOTTOM", prev, curr))
               ELSE divergences
    /\ i' = i + 1
    /\ UNCHANGED <<pc, data, direction, fractals, current_direction,
                   current_start, strokes, hubs, hub, highs, lows, next_idx,
                   macd, paramVars, indVars, driverVars>>

\* The end of the loop over the BOTTOM fractals (hub.py 442): __init__
\* returns.
IdentifyBottomDivergenceDone ==
    /\ pc = "bottom_divergence"
    /\ i >= Len(FractalsOfType(fractals, "BOTTOM"))
    /\ pc' = "done"
    /\ UNCHANGED <<data, direction, i, fractals, current_direction,
                   current_start, strokes, hubs, hub, highs, lows, next_idx,
                   macd, divergences, paramVars, indVars, driverVars>>


\* ======================================================================
\* ChanTheoryIndicator (chan_theory.py)
\* ======================================================================

\* chan_theory.py 120-121: highs/lows, element k being the bar k bars back.
Back(f, n) == [k \in 1..(2 * n - 1) |-> f[Len(f) - (k - 1)]]

\* chan_theory.py 124-129
IndIsTop(w, mid_point) ==
    \A k \in 0..(Len(w) - 1) :
        k # mid_point => ~(At(w, k).High >= At(w, mid_point).High)

\* chan_theory.py 132-137
IndIsBottom(w, mid_point) ==
    \A k \in 0..(Len(w) - 1) :
        k # mid_point => ~(At(w, k).Low <= At(w, mid_point).Low)

\* chan_theory.py 115-144
IdentifyFractal(f, n) ==
    IF IndIsTop(Back(f, n), n - 1) THEN "TOP"
    ELSE IF IndIsBottom(Back(f, n), n - 1) THEN "BOTTOM"
    ELSE "NONE"

\* chan_theory.py 146-167, with the bar the call is made on (data.high[0],
\* data.low[0], datetime(0)); the time of bar number c is c.
FractalDatum(fractal, bar, c) ==
    [type  |-> IF fractal = "TOP" THEN "top" ELSE "bottom",
     high  |-> bar.High,
     low   |-> bar.Low,
     index |-> c,
     time  |-> c]

\* chan_theory.py 176-207: the first stroke, from fractal_data[0] and [1].
FirstStroke(fd, st) ==
    LET first == At(fd, 0)
        second == At(fd, 1)
    IN  IF first.type # second.type
        THEN IF first.type = "top"
             THEN Append(st, [direction |-> "DOWN",
                              high |-> first.high, low |-> second.low,
                              start_index |-> first.index,
                              end_index |-> second.index,
                              start_time |-> first.time,
                              end_time |-> second.time])
             ELSE Append(st, [direction |-> "UP",
                              high |-> second.high, low |-> first.low,
                              start_index |-> first.index,
                              end_index |-> second.index,
                              start_time |-> first.time,
                              end_time |-> second.time])
        ELSE st

\* chan_theory.py 208-259
LaterStrokeFirst(fd, st) ==
    LET last_stroke == st[Len(st)]
        last_fractal == fd[Len(fd)]
    IN  IF last_stroke.direction = "UP"
        THEN IF last_fractal.type = "top"
             THEN IF last_fractal.high > last_stroke.high
                  THEN [st EXCEPT ![1] =
                           [@ EXCEPT !.high = last_fractal.high,
                                     !.end_index = last_fractal.index,
                                     !.end_time = last_fractal.time]]
                  ELSE st
             ELSE IF last_fractal.low < last_stroke.low
                  THEN Append(st, [direction |-> "DOWN",
                                   high |-> last_stroke.high,
                                   low |-> last_fractal.low,
                                   start_index |-> last_stroke.end_index,
                                   end_index |-> last_fractal.index,
                                   start_time |-> last_stroke.end_time,
                                   end_time |-> last_fractal.time])
                  ELSE st
        ELSE IF last_fractal.type = "bottom"
             THEN IF last_fractal.low < last_stroke.low
                  THEN [st EXCEPT ![1] =
                           [@ EXCEPT !.low = last_fractal.low,
                                     !.end_index = last_fractal.index,
                                     !.end_time = last_fractal.time]]
                  ELSE st
             ELSE IF last_fractal.high > last_stroke.high
                  THEN Append(st, [direction |-> "UP",
                                   high |-> last_fractal.high,
                                   low |-> last_stroke.low,
                                   start_index |-> last_stroke.end_index,
                                   end_index |-> last_fractal.index,
                                   start_time |-> last_stroke.end_time,
                                   end_time |-> last_fractal.time])
                  ELSE st

\* chan_theory.py 208-259: the last stroke and the newest fractal.
LaterStroke(fd, st) ==
    LET last_stroke == st[Len(st)]
        last_fractal == fd[Len(fd)]
    IN  IF last_stroke.direction = "UP"
        THEN IF last_fractal.type = "top"
             THEN IF last_fractal.high > last_stroke.high
                  THEN [st EXCEPT ![Len(st)] =
                           [@ EXCEPT !.high = last_fractal.high,
                                     !.end_index = last_fractal.index,
                                     !.end_time = last_fractal.time]]
                  ELSE st
             ELSE IF last_fractal.low < last_stroke.low
                  THEN Append(st, [direction |-> "DOWN",
                                   high |-> last_stroke.high,
                                   low |-> last_fractal.low,
                                   start_index |-> last_stroke.end_index,
                                   end_index |-> last_fractal.index,
                                   start_time |-> last_stroke.end_time,
                                   end_time |-> last_fractal.time])
                  ELSE st
        ELSE IF last_fractal.type = "bottom"
             THEN IF last_fractal.low < last_stroke.low
                  THEN [st EXCEPT ![Len(st)] =
                           [@ EXCEPT !.low = last_fractal.low,
                                     !.end_index = last_fractal.index,
                                     !.end_time = last_fractal.time]]
                  ELSE st
             ELSE IF last_fractal.high > last_stroke.high
                  THEN Append(st, [direction |-> "UP",
                                   high |-> last_fractal.high,
                                   low |-> last_stroke.low,
                                   start_index |-> last_stroke.end_index,
                                   end_index |-> last_fractal.index,
                                   start_time |-> last_stroke.end_time,
                                   end_time |-> last_fractal.time])
                  ELSE st

UpdateStrokesFromLastFractal(fd, st) ==
    IF Len(fd) < 2 THEN st
    ELSE IF st = <<>> THEN FirstStroke(fd, st)
    ELSE LET after == LaterStroke(fd, st)
         IN  IF Len(after) > Len(st)
             THEN [after EXCEPT ![Len(after)] =
                      [@ EXCEPT !.start_index = fd[Len(fd) - 1].index,
                                !.start_time = fd[Len(fd) - 1].time]]
             ELSE after

UpdateStrokesBetweenFractals(fd, st) ==
    IF Len(fd) < 2 THEN st
    ELSE IF st = <<>> THEN FirstStroke(fd, st)
    ELSE LET after == LaterStroke(fd, st)
         IN  IF Len(after) > Len(st)
             THEN [after EXCEPT ![Len(after)] =
                      IF @.direction = "UP"
                      THEN [@ EXCEPT !.low = fd[Len(fd) - 1].low]
                      ELSE [@ EXCEPT !.high = fd[Len(fd) - 1].high]]
             ELSE after

UpdateStrokesFirstOnly(fd, st) ==
    IF Len(fd) < 2 THEN st ELSE FirstStroke(fd, st)

\* chan_theory.py 169-259: the stroke list after _update_strokes.
UpdateStrokes(fd, st) ==
    IF Len(fd) < 2 THEN st
    ELSE IF st = <<>> THEN FirstStroke(fd, st)
    ELSE LaterStroke(fd, st)

\* chan_theory.py 194, 207, 236, 259: last_direction follows an appended
\* stroke.
UpdateLastDirection(st_before, st_after, ld) ==
    IF Len(st_after) > Len(st_before)
    THEN st_after[Len(st_after)].direction
    ELSE ld

\* chan_theory.py 303-314: the bounds of the last hub_strokes strokes.
IndHubTop(recent_strokes) ==
    LET hs == SortAsc(Highs(recent_strokes)) IN hs[Len(hs) - 1]

IndHubBottom(recent_strokes) == At(SortAsc(Lows(recent_strokes)), 1)

\* chan_theory.py 297-330
CreateNewHub(st, hb) ==
    IF Len(st) < hub_strokes THEN hb
    ELSE LET recent_strokes == SubSeq(st, Len(st) - hub_strokes + 1, Len(st))
         IN  IF IndHubTop(recent_strokes) > IndHubBottom(recent_strokes)
             THEN Append(hb, [top |-> IndHubTop(recent_strokes),
                              bottom |-> IndHubBottom(recent_strokes),
                              start_index |-> recent_strokes[1].start_index,
                              end_index |-> recent_strokes[hub_strokes].end_index,
                              start_time |-> recent_strokes[1].start_time,
                              end_time |-> recent_strokes[hub_strokes].end_time])
             ELSE hb

\* chan_theory.py 271-295: the last hub against the last stroke.
AdjustLastHubLow(st, hb) ==
    LET last_hub == hb[Len(hb)]
        last_stroke == st[Len(st)]
    IN  IF last_stroke.direction = "UP"
        THEN IF last_stroke.low > last_hub.top
             THEN CreateNewHub(st, hb)
             ELSE IF last_stroke.high > last_hub.top
                     /\ last_stroke.low < last_hub.top
             THEN [hb EXCEPT ![Len(hb)] = [@ EXCEPT !.top = last_stroke.low]]
             ELSE hb
        ELSE IF last_stroke.high < last_hub.bottom
             THEN CreateNewHub(st, hb)
             ELSE IF last_stroke.low < last_hub.bottom
                     /\ last_stroke.high > last_hub.bottom
             THEN [hb EXCEPT ![Len(hb)] = [@ EXCEPT !.bottom = last_stroke.low]]
             ELSE hb

AdjustLastHub(st, hb) ==
    LET last_hub == hb[Len(hb)]
        last_stroke == st[Len(st)]
    IN  IF last_stroke.direction = "UP"
        THEN IF last_stroke.low > last_hub.top
             THEN CreateNewHub(st, hb)
             ELSE IF last_stroke.high > last_hub.top
                     /\ last_stroke.low < last_hub.top
             THEN [hb EXCEPT ![Len(hb)] = [@ EXCEPT !.top = last_stroke.high]]
             ELSE hb
        ELSE IF last_stroke.high < last_hub.bottom
             THEN CreateNewHub(st, hb)
             ELSE IF last_stroke.low < last_hub.bottom
                     /\ last_stroke.high > last_hub.bottom
             THEN [hb EXCEPT ![Len(hb)] = [@ EXCEPT !.bottom = last_stroke.low]]
             ELSE hb

UpdateHubsAlwaysCreate(st, hb) ==
    IF Len(st) < hub_strokes THEN hb ELSE CreateNewHub(st, hb)

\* chan_theory.py 261-295: the hub list after _update_hubs.
UpdateHubs(st, hb) ==
    IF Len(st) < hub_strokes THEN hb
    ELSE IF hb = <<>> THEN CreateNewHub(st, hb)
    ELSE AdjustLastHub(st, hb)

\* chan_theory.py 61-72: every line is set to 0 at the start of next().
ZeroLines ==
    [buy1 |-> 0, buy2 |-> 0, buy3 |-> 0, sell1 |-> 0, sell2 |-> 0, sell3 |-> 0,
     top_fractal |-> 0, bottom_fractal |-> 0, stroke_high |-> 0,
     stroke_low |-> 0, hub_top |-> 0, hub_bottom |-> 0]

\* What the MACD sub-indicator (chan_theory.py 44-46) shows at the current
\* bar: a golden cross (macd > signal now, macd <= signal one bar before,
\* chan_theory.py 350-351), a death cross (379-380) or neither.
Crosses == {"golden", "death", "none"}

\* chan_theory.py 332-400: the six signal lines written by
\* _identify_buy_sell_points; ln holds the lines as they are on entry.
BuySellPoints(ln, fd, st, hb, cross) ==
    LET last_hub == hb[Len(hb)]
        last_stroke == st[Len(st)]
        last_fractal == fd[Len(fd)]
        up == last_stroke.direction = "UP"
        down == last_stroke.direction = "DOWN"
    IN  [ln EXCEPT
          !.buy1 = IF /\ up /\ Len(fd) >= 2
                      /\ last_fractal.type = "bottom"
                      /\ last_fractal.low < last_hub.bottom
                      /\ cross = "golden"
                   THEN 1 ELSE @,
          !.buy2 = IF /\ up /\ Len(st) >= 3
                      /\ st[Len(st) - 2].direction = "UP"
                      /\ last_stroke.low > st[Len(st) - 2].low
                   THEN 1 ELSE @,
          !.buy3 = IF /\ up /\ Len(st) >= 2
                      /\ st[Len(st) - 1].high > last_hub.top
                      /\ last_stroke.low > last_hub.top
                   THEN 1 ELSE @,
          !.sell1 = IF /\ down /\ Len(fd) >= 2
                       /\ last_fractal.type = "top"
                       /\ last_fractal.high > last_hub.top
                       /\ cross = "death"
                    THEN 1 ELSE @,
          !.sell2 = IF /\ down /\ Len(st) >= 3
                       /\ st[Len(st) - 2].direction = "DOWN"
                       /\ last_stroke.high < st[Len(st) - 2].high
                    THEN 1 ELSE @,
          !.sell3 = IF /\ down /\ Len(st) >= 2
                       /\ st[Len(st) - 1].low < last_hub.bottom
                       /\ last_stroke.high < last_hub.bottom
                    THEN 1 ELSE @]

\* chan_theory.py 332-336: the early return.
IdentifyBuySellPointsNoReturn(ln, fd, st, hb, cross) ==
    IF st = <<>>
    THEN ln
    ELSE BuySellPoints(ln, fd, st, IF hb = <<>> THEN <<NoHub>> ELSE hb, cross)

IdentifyBuySellPoints(ln, fd, st, hb, cross) ==
    IF hb = <<>> \/ Len(st) < hub_strokes + 1
    THEN ln
    ELSE BuySellPoints(ln, fd, st, hb, cross)

\* chan_theory.py 93-113: the display lines.
DisplayLines(ln, fractal, bar, st, hb) ==
    [ln EXCEPT
      !.top_fractal = IF fractal = "TOP" THEN bar.High ELSE @,
      !.bottom_fractal = IF fractal = "BOTTOM" THEN bar.Low ELSE @,
      !.stroke_high = IF st = <<>> THEN @
                      ELSE IF st[Len(st)].direction = "UP"
                      THEN st[Len(st)].high ELSE st[Len(st)].low,
      !.stroke_low = IF st = <<>> THEN @
                     ELSE IF st[Len(st)].direction = "UP"
                     THEN st[Len(st)].low ELSE st[Len(st)].high,
      !.hub_top = IF hb = <<>> THEN @ ELSE hb[Len(hb)].top,
      !.hub_bottom = IF hb = <<>> THEN @ ELSE hb[Len(hb)].bottom]

\* chan_theory.py 82-113: next() on bar number c, which confirms `fractal`.
OnFractal(fractal, bar, c, cross) ==
    LET fd == Append(fractal_data, FractalDatum(fractal, bar, c))
        st == UpdateStrokes(fd, ind_strokes)
        hb == UpdateHubs(st, ind_hubs)
    IN  /\ fractal_data' = fd
        /\ ind_strokes' = st
        /\ last_direction' = UpdateLastDirection(ind_strokes, st, last_direction)
        /\ ind_hubs' = hb
        /\ lines' = DisplayLines(
                        IdentifyBuySellPoints(ZeroLines, fd, st, hb, cross),
                        fractal, bar, st, hb)

\* chan_theory.py 59-113: next() on the new bar `bar`, the MACD showing
\* `cross`.
IndStepWindowOfFractalLen(bar, cross) ==
    LET f == Append(feed, bar)
        n == (fractal_len + 1) \div 2
    IN  /\ feed' = f
        /\ count' = count + 1
        /\ IF Len(f) < fractal_len
           THEN /\ lines' = ZeroLines
                /\ UNCHANGED <<fractal_data, ind_strokes, last_direction,
                               ind_hubs>>
           ELSE IF IdentifyFractal(f, n) # "NONE"
           THEN OnFractal(IdentifyFractal(f, n), bar, count + 1, cross)
           ELSE /\ lines' = ZeroLines
                /\ UNCHANGED <<fractal_data, ind_strokes, last_direction,
                               ind_hubs>>

IndStep(bar, cross) ==
    LET f == Append(feed, bar)
    IN  /\ feed' = f
        /\ count' = count + 1
        /\ IF Len(f) < 2 * fractal_len - 1
           THEN /\ lines' = ZeroLines
                /\ UNCHANGED <<fractal_data, ind_strokes, last_direction,
                               ind_hubs>>
           ELSE IF IdentifyFractal(f, fractal_len) # "NONE"
           THEN OnFractal(IdentifyFractal(f, fractal_len), bar, count + 1,
                          cross)
           ELSE /\ lines' = ZeroLines
                /\ UNCHANGED <<fractal_data, ind_strokes, last_direction,
                               ind_hubs>>

\* chan_theory.py 59-113: next() on a new bar of the data feed.
IndNext ==
    /\ Len(feed) < MaxFeed
    /\ \E bar \in BarValues : \E cross \in Crosses : IndStep(bar, cross)
    /\ UNCHANGED <<paramVars, batchVars, driverVars>>

\* next() on the bars that confirm a fractal, the feed itself not being
\* kept: bar number c confirms a fractal when Confirming(c), every
\* fractal_len-th bar from the first bar that has a full window on.  Two
\* fractals of the same type are at least fractal_len bars apart, so this
\* spacing allows every sequence of fractal types; the confirming bar's High
\* and Low are unrelated to the window's centre, so every price occurs.
Confirming(c) ==
    c >= 2 * fractal_len - 1 /\ c % fractal_len = fractal_len - 1

\* chan_theory.py 59-113: next() on a bar that confirms a fractal.  Of the
\* confirming bar, _update_strokes and _update_hubs read High for a top and
\* Low for a bottom only; the bar is taken with High = Low.
ConfirmedUpTo(n, pmax) ==
    /\ Len(fractal_data) < n
    /\ Confirming(count + 1)
    /\ \E fractal \in {"TOP", "BOTTOM"} : \E p \in 1..pmax :
          \E cross \in Crosses :
              OnFractal(fractal, [High |-> p, Low |-> p], count + 1, cross)
    /\ count' = count + 1
    /\ UNCHANGED <<feed, paramVars, batchVars, driverVars>>

IndNextConfirmed == ConfirmedUpTo(MaxIndFractals, MaxFractalPrice)

QuietKeepsLinesUpTo(n) ==
    /\ Len(fractal_data) < n
    /\ ~Confirming(count + 1)
    /\ count' = count + 1
    /\ UNCHANGED <<lines, feed, fractal_data, ind_strokes, last_direction,
                   ind_hubs, paramVars, batchVars, driverVars>>

\* chan_theory.py 59-82: next() on a bar that confirms no fractal.
QuietUpTo(n) ==
    /\ Len(fractal_data) < n
    /\ ~Confirming(count + 1)
    /\ count' = count + 1
    /\ lines' = ZeroLines
    /\ UNCHANGED <<feed, fractal_data, ind_strokes, last_direction, ind_hubs,
                   paramVars, batchVars, driverVars>>

IndNextQuiet == QuietUpTo(MaxIndFractals)

\* The same two steps of next(), followed for MaxSigFractals fractals of
\* prices 1..MaxSigPrice and the quiet bar after the last of them.
SigNextConfirmed == ConfirmedUpTo(MaxSigFractals, MaxSigPrice)

SigNextQuiet == QuietUpTo(MaxSigFractals + 1)

\* --------------------------------------------------------- specifications
\* ChanTheoryIndicator.__init__ (chan_theory.py 42-57)
IndInit ==
    /\ feed = <<>>
    /\ count = 0
    /\ fractal_data = <<>>
    /\ ind_strokes = <<>>
    /\ last_direction = "None"
    /\ ind_hubs = <<>>
    /\ lines = ZeroLines

\* No indicator is attached: its state stays as constructed.
IndIdle == IndInit

\* No ChartAnalyzer is constructed.
BatchIdle ==
    /\ pc = "idle"
    /\ data = <<>>
    /\ direction = "UP"
    /\ i = 0
    /\ fractals = <<>>
    /\ current_direction = "None"
    /\ current_start = NoFractal
    /\ strokes = <<>>
    /\ hubs = <<>>
    /\ hub = NoHub
    /\ highs = <<>>
    /\ lows = <<>>
    /\ next_idx = 0
    /\ macd = <<>>
    /\ divergences = <<>>

\* grid_strategy.py 16-28, with the cash the test gives the broker
\* (test_grid_strategy.py 10).
GridInit ==
    /\ grid_pc = "new"
    /\ base_price = NoPrice
    /\ grid_lines = <<>>
    /\ current_position = 0
    /\ grid_order = NoOrder
    /\ buyprice = NoPrice
    /\ grid_positions = <<>>
    /\ total_position = 0
    /\ grid_position = 0
    /\ cash = startingcash
    /\ dataclose = <<>>
    /\ queue = <<>>

\* No GridStrategy runs.
GridIdle ==
    /\ p_base_price = NoPrice
    /\ GridInit

\* The stock codes of the broker account.  The first is held throughout;
\* the second is bought and sold.
HeldStock == "600000"
Stocks == {HeldStock, "000001"}

\* What trader.position can answer: the shares of each stock (0: the stock
\* is not in the list).
Accounts == {a \in [Stocks -> 0..MaxShares] : a[HeldStock] > 0}

\* What trader.balance can answer, as cash and total value.
Balances == {[cash |-> 0, value |-> 0], [cash |-> 1000, value |-> 2000]}

\* The dict _positions has no entry for a stock.
Absent == 0 - 1

\* LiveTradingBroker.__init__ (easytradebroker.py 30-44): the fields as the
\* constructor leaves them, _sync_account having run inside _init_trader
\* when the interface connected (47-68); the sync thread is about to start
\* its first round.
LiveInit ==
    /\ trader \in {"connected", "None"}
    /\ account \in Accounts
    /\ IF trader = "connected"
       THEN \E b \in Balances : self_cash = b.cash /\ self_value = b.value
       ELSE self_cash = 0 /\ self_value = 0
    /\ self_positions = [s \in Stocks |-> Absent]
    /\ sync_pc = "account"
    /\ positions = <<>>
    /\ pos_k = 1
    /\ last_sync = 0
    /\ got = [code |-> "", size |-> 0]

\* No LiveTradingBroker is constructed.
LiveIdle ==
    /\ trader = "None"
    /\ account = [s \in Stocks |-> IF s = HeldStock THEN 1 ELSE 0]
    /\ self_cash = 0
    /\ self_value = 0
    /\ self_positions = [s \in Stocks |-> Absent]
    /\ sync_pc = "account"
    /\ positions = <<>>
    /\ pos_k = 1
    /\ last_sync = 0
    /\ got = [code |-> "", size |-> 0]

\* No driver runs the analyzer a second time.
DriverIdle ==
    /\ prev_counts = <<0, 0, 0>>
    /\ tape = <<>>
    /\ first_run = <<>>
    /\ position = 0
    /\ placed = <<>>
    /\ GridIdle
    /\ LiveIdle

\* ChartAnalyzer.__init__ (hub.py 28-63) on a raw bar table: the bar reducer
\* and the fractal detector.
Init ==
    /\ fractal_len \in FractalLens
    /\ hub_strokes = 3
    /\ pc = "inclusive"
    /\ IsRawSeries(data, MaxBars)
    /\ direction = "UP"
    /\ i = 1
    /\ fractals = <<>>
    /\ current_direction = "None"
    /\ current_start = NoFractal
    /\ strokes = <<>>
    /\ hubs = <<>>
    /\ hub = NoHub
    /\ highs = <<>>
    /\ lows = <<>>
    /\ next_idx = 0
    /\ macd = <<>>
    /\ divergences = <<>>
    /\ IndIdle
    /\ DriverIdle

Next ==
    \/ HandleInclusiveKLines
    \/ HandleInclusiveDone
    \/ IdentifyFractals
    \/ IdentifyFractalsDone

Spec == Init /\ [][Next]_vars

\* ChartAnalyzer.__init__ from _construct_strokes on, for a fractal list
\* _identify_fractals can leave: fractals of any type and price, in index
\* order.  Fractal k of the list sits 2 * fractal_len - 1 rows after fractal
\* k - 1, so that their windows do not overlap and neither constrains the
\* other's type or price; no row was merged, so its time is its index.
FractalValue(ty, p, k) ==
    [type |-> ty, index |-> (3 - 1) + (k - 1) * (2 * 3 - 1), price |-> p,
     time |-> (3 - 1) + (k - 1) * (2 * 3 - 1)]

FractalChoices == [type : {"TOP", "BOTTOM"}, price : 1..MaxFractalPrice]

IsFractalSeries(fr, n) ==
    \E m \in 0..n : \E f \in [1..m -> FractalChoices] :
        fr = [k \in 1..m |-> FractalValue(f[k].type, f[k].price, k)]

InitStrokes ==
    /\ fractal_len = 3
    /\ hub_strokes = 3
    /\ pc = "strokes"
    /\ data = <<>>
    /\ direction = "UP"
    /\ IsFractalSeries(fractals, MaxFractals)
    /\ i = 1
    /\ current_direction = "None"
    /\ current_start = IF Len(fractals) >= 2 THEN At(fractals, 0) ELSE NoFractal
    /\ strokes = <<>>
    /\ hubs = <<>>
    /\ hub = NoHub
    /\ highs = <<>>
    /\ lows = <<>>
    /\ next_idx = 0
    /\ macd = <<>>
    /\ divergences = <<>>
    /\ IndIdle
    /\ DriverIdle

NextStrokes ==
    \/ ConstructStrokes
    \/ ConstructStrokesDone

SpecStrokes == InitStrokes /\ [][NextStrokes]_vars

\* What _construct_strokes can hand to _identify_hubs: the set of its
\* results over the fractal lists of m fractals that start with `first`
\* (the loop of hub.py 213-276 run over every list at once).
RECURSIVE StrokeResults(_, _)
StrokeResults(first, m) ==
    IF m <= 1
    THEN {[current_direction |-> "None", current_start |-> first,
           strokes |-> <<>>]}
    ELSE {StrokeStep(st, first, FractalValue(c.type, c.price, m)) :
            st \in StrokeResults(first, m - 1), c \in FractalChoices}

\* ChartAnalyzer.__init__ from _identify_hubs on, for a stroke list
\* _construct_strokes can leave.  The fractal list and the locals of
\* _construct_strokes are not read any more and are not kept.
InitHubs ==
    /\ fractal_len = 3
    /\ hub_strokes \in HubStrokes
    /\ pc = "hubs"
    /\ data = <<>>
    /\ direction = "UP"
    /\ fractals = <<>>
    /\ i = 0
    /\ current_direction = "None"
    /\ current_start = NoFractal
    /\ \E m \in 1..MaxHubFractals : \E c \in FractalChoices :
          \E st \in StrokeResults(FractalValue(c.type, c.price, 1), m) :
              strokes = st.strokes
    /\ hubs = <<>>
    /\ hub = NoHub
    /\ highs = <<>>
    /\ lows = <<>>
    /\ next_idx = 0
    /\ macd = <<>>
    /\ divergences = <<>>
    /\ IndIdle
    /\ DriverIdle

NextHubs ==
    \/ IdentifyHubs
    \/ ExtendHub
    \/ IdentifyHubsDone

SpecHubs == InitHubs /\ [][NextHubs]_vars

\* ChanTheoryIndicator fed bar by bar.
InitFeed ==
    /\ fractal_len \in FractalLens
    /\ hub_strokes = 3
    /\ BatchIdle
    /\ IndInit
    /\ DriverIdle

NextFeed == IndNext

SpecFeed == InitFeed /\ [][NextFeed]_vars

\* ChanTheoryIndicator over the bars that confirm fractals.
InitInd ==
    /\ fractal_len = 3
    /\ hub_strokes \in HubStrokes
    /\ BatchIdle
    /\ IndInit
    /\ DriverIdle

NextInd ==
    \/ IndNextConfirmed
    \/ IndNextQuiet

SpecInd == InitInd /\ [][NextInd]_vars

\* ChartAnalyzer.__init__ from _identify_macd_divergence on, for a fractal
\* list _identify_fractals can leave (of any types and prices, in index
\* order).  The strokes and hubs are not read any more and are not kept.
InitDivergence ==
    /\ fractal_len = 3
    /\ hub_strokes = 3
    /\ pc = "divergence"
    /\ data = <<>>
    /\ direction = "UP"
    /\ \E m \in 0..MaxDivFractals :
          \E f \in [1..m -> [type : {"TOP", "BOTTOM"}, price : 1..MaxDivPrice]] :
              fractals = [k \in 1..m |-> FractalValue(f[k].type, f[k].price, k)]
    /\ i = 0
    /\ current_direction = "None"
    /\ current_start = NoFractal
    /\ strokes = <<>>
    /\ hubs = <<>>
    /\ hub = NoHub
    /\ highs = <<>>
    /\ lows = <<>>
    /\ next_idx = 0
    /\ macd = <<>>
    /\ divergences = <<>>
    /\ IndIdle
    /\ DriverIdle

NextDivergence ==
    \/ BeginMacdDivergence
    \/ IdentifyTopDivergence
    \/ IdentifyTopDivergenceDone
    \/ IdentifyBottomDivergence
    \/ IdentifyBottomDivergenceDone

SpecDivergence == InitDivergence /\ [][NextDivergence]_vars

\* A driver over one bar series: each new bar is handed to
\* ChanTheoryIndicator.next, and a ChartAnalyzer is constructed over the
\* series so far (its constructor is followed through _identify_hubs).  The
\* driver keeps the numbers of fractals, strokes and hubs of the analyzer it
\* replaces.
AnalyzeBarSharedLists(bars) ==
    /\ \E bar \in bars : \E cross \in Crosses : IndStep(bar, cross)
    /\ pc' = "inclusive"
    /\ data' = Stamp(feed')
    /\ direction' = "UP"
    /\ i' = 1
    /\ current_direction' = "None"
    /\ current_start' = NoFractal
    /\ fractals' = <<>>
    /\ hubs' = <<>>
    /\ hub' = NoHub
    /\ highs' = <<>>
    /\ lows' = <<>>
    /\ next_idx' = 0
    /\ UNCHANGED <<strokes, macd, divergences, paramVars>>

\* One bar of bars arrives: next() of the indicator, and a ChartAnalyzer
\* constructed over the series so far (hub.py 38-56, 73-76: its own copy of
\* the table, empty lists, direction UP).
AnalyzeBar(bars) ==
    /\ \E bar \in bars : \E cross \in Crosses : IndStep(bar, cross)
    /\ pc' = "inclusive"
    /\ data' = Stamp(feed')
    /\ direction' = "UP"
    /\ i' = 1
    /\ fractals' = <<>>
    /\ current_direction' = "None"
    /\ current_start' = NoFractal
    /\ strokes' = <<>>
    /\ hubs' = <<>>
    /\ hub' = NoHub
    /\ highs' = <<>>
    /\ lows' = <<>>
    /\ next_idx' = 0
    /\ UNCHANGED <<macd, divergences, paramVars>>

Analyze ==
    /\ pc \in {"idle", "divergence"}
    /\ Len(feed) < MaxSeries
    /\ AnalyzeBar(BarValues)
    /\ prev_counts' = <<Len(fractals), Len(strokes), Len(hubs)>>
    /\ UNCHANGED <<tape, first_run, strategyVars, gridVars, liveVars>>

InitDrive ==
    /\ fractal_len \in FractalLens
    /\ hub_strokes = 2
    /\ BatchIdle
    /\ IndInit
    /\ DriverIdle

\* hub.py 28-63, chan_theory.py 35-57: the constructors store whatever
\* fractal_len they are given; 1 is below the documented minimum of 2.
ConfigFractalLens == {1, 2}

InitConfig ==
    /\ fractal_len \in ConfigFractalLens
    /\ hub_strokes = 2
    /\ BatchIdle
    /\ IndInit
    /\ DriverIdle

NextDrive ==
    \/ Analyze
    \/ HandleInclusiveKLines
    \/ HandleInclusiveDone
    \/ IdentifyFractals
    \/ IdentifyFractalsDone
    \/ ConstructStrokes
    \/ ConstructStrokesDone
    \/ IdentifyHubs
    \/ ExtendHub
    \/ IdentifyHubsDone

SpecDrive == InitDrive /\ [][NextDrive]_vars

SpecConfig == InitConfig /\ [][NextDrive]_vars

\* A driver that analyses one bar series twice: bar by bar with one
\* indicator and one analyzer per prefix, then again, from the same bars,
\* with a newly constructed indicator and newly constructed analyzers.
RunResults ==
    [fractals |-> fractals, strokes |-> strokes, hubs |-> hubs,
     divergences |-> divergences, macd |-> macd,
     fractal_data |-> fractal_data, ind_strokes |-> ind_strokes,
     ind_hubs |-> ind_hubs]

\* A new bar in the first analysis.
FirstRun ==
    /\ pc \in {"idle", "done"}
    /\ tape = <<>>
    /\ Len(feed) < MaxRerun
    /\ AnalyzeBar(BarValues)
    /\ UNCHANGED driverVars

\* The first analysis ends; a second indicator is constructed
\* (chan_theory.py 42-57).  The analyzers of the second analysis are
\* constructed by AnalyzeBar.
StartSecondRun ==
    /\ pc = "done"
    /\ tape = <<>>
    /\ feed # <<>>
    /\ tape' = feed
    /\ first_run' = RunResults
    /\ feed' = <<>>
    /\ count' = 0
    /\ fractal_data' = <<>>
    /\ ind_strokes' = <<>>
    /\ last_direction' = "None"
    /\ ind_hubs' = <<>>
    /\ lines' = ZeroLines
    /\ UNCHANGED <<prev_counts, strategyVars, gridVars, liveVars, paramVars, batchVars>>

\* The next bar of the series in the second analysis.
SecondRun ==
    /\ pc \in {"idle", "done"}
    /\ tape # <<>>
    /\ Len(feed) < Len(tape)
    /\ AnalyzeBar({tape[Len(feed) + 1]})
    /\ UNCHANGED driverVars

\* hub.py 374-378: the oscillator is a function of the Close column, so
\* over the whole series the second analysis computes the values the first
\* one computed.
RerunMacdDivergence ==
    /\ BeginMacdDivergence
    /\ (tape # <<>> /\ Len(feed) = Len(tape)) =>
          \A x \in DOMAIN macd' \cap DOMAIN first_run.macd :
              macd'[x] = first_run.macd[x]

InitRerun ==
    /\ fractal_len \in FractalLens
    /\ hub_strokes = 2
    /\ BatchIdle
    /\ IndInit
    /\ DriverIdle

NextRerun ==
    \/ FirstRun
    \/ StartSecondRun
    \/ SecondRun
    \/ HandleInclusiveKLines
    \/ HandleInclusiveDone
    \/ IdentifyFractals
    \/ IdentifyFractalsDone
    \/ ConstructStrokes
    \/ ConstructStrokesDone
    \/ IdentifyHubs
    \/ ExtendHub
    \/ IdentifyHubsDone
    \/ RerunMacdDivergence
    \/ IdentifyTopDivergence
    \/ IdentifyTopDivergenceDone
    \/ IdentifyBottomDivergence
    \/ IdentifyBottomDivergenceDone

SpecRerun == InitRerun /\ [][NextRerun]_vars

\* ChanTheoryIndicator over the bars that confirm fractals, with the
\* smallest valid parameters, long enough for its signal lines to fire.
InitSignals ==
    /\ fractal_len = 2
    /\ hub_strokes = 2
    /\ BatchIdle
    /\ IndInit
    /\ DriverIdle

NextSignals ==
    \/ SigNextConfirmed
    \/ SigNextQuiet

SpecSignals == InitSignals /\ [][NextSignals]_vars

\* ======================================================================
\* ChanTheoryStrategy (chan_strategy.py)
\* ======================================================================

\* The values the indicator's six signal lines can show at a bar.
SignalValues ==
    {[ZeroLines EXCEPT !.buy1 = b1, !.buy2 = b2, !.buy3 = b3,
                       !.sell1 = s1, !.sell2 = s2, !.sell3 = s3] :
        b1 \in {0, 1}, b2 \in {0, 1}, b3 \in {0, 1},
        s1 \in {0, 1}, s2 \in {0, 1}, s3 \in {0, 1}}

\* A call of self.buy() or self.sell(), and the branch that made it.
Order(side, by) == [side |-> side, by |-> by]

StrategyOrdersEveryBranch(pos, ln) ==
    IF pos = 0
    THEN (IF ln.buy1 > 0 THEN <<Order("buy", "buy1")>> ELSE <<>>)
         \o (IF ln.buy2 > 0 THEN <<Order("buy", "buy2")>> ELSE <<>>)
         \o (IF ln.buy3 > 0 THEN <<Order("buy", "buy3")>> ELSE <<>>)
    ELSE (IF ln.sell1 > 0 THEN <<Order("sell", "sell1")>> ELSE <<>>)
         \o (IF ln.sell2 > 0 THEN <<Order("sell", "sell2")>> ELSE <<>>)
         \o (IF ln.sell3 > 0 THEN <<Order("sell", "sell3")>> ELSE <<>>)

\* chan_strategy.py 34-59: the calls next() makes, in order.
StrategyOrders(pos, ln) ==
    IF pos = 0
    THEN IF ln.buy1 > 0 THEN <<Order("buy", "buy1")>>
         ELSE IF ln.buy2 > 0 THEN <<Order("buy", "buy2")>>
         ELSE IF ln.buy3 > 0 THEN <<Order("buy", "buy3")>>
         ELSE <<>>
    ELSE IF ln.sell1 > 0 THEN <<Order("sell", "sell1")>>
         ELSE IF ln.sell2 > 0 THEN <<Order("sell", "sell2")>>
         ELSE IF ln.sell3 > 0 THEN <<Order("sell", "sell3")>>
         ELSE <<>>

\* chan_strategy.py 26-59: next() on a bar at which the indicator shows
\* the signals ln.  The orders of the bar before have been through the
\* broker.
StrategyNext ==
    /\ placed = <<>>
    /\ \E ln \in SignalValues :
          /\ lines' = ln
          /\ placed' = StrategyOrders(position, ln)
    /\ UNCHANGED <<position, feed, count, fractal_data, ind_strokes,
                   last_direction, ind_hubs, prev_counts, tape, first_run,
                   gridVars, liveVars, paramVars, batchVars>>

\* The broker takes the calls of the last bar before the next bar's next():
\* each is executed, one unit bought or sold, or all are refused.
BrokerNext ==
    /\ placed # <<>>
    /\ placed' = <<>>
    /\ \/ position' = position
             + Cardinality({k \in 1..Len(placed) : placed[k].side = "buy"})
             - Cardinality({k \in 1..Len(placed) : placed[k].side = "sell"})
       \/ position' = position
    /\ UNCHANGED <<prev_counts, tape, first_run, gridVars, liveVars, paramVars,
                   batchVars, indVars>>

InitStrategy ==
    /\ fractal_len = 3
    /\ hub_strokes = 3
    /\ BatchIdle
    /\ IndInit
    /\ DriverIdle

NextStrategy ==
    \/ StrategyNext
    \/ BrokerNext

SpecStrategy == InitStrategy /\ [][NextStrategy]_vars

\* ======================================================================
\* GridStrategy (grid_strategy.py)
\* ======================================================================

\* Closing prices of the bars, and prices at which the broker executes.
GridPrices == {96, 98, 100, 102, 106}

\* Values of the parameter base_price: its default None, and a price.
BasePrices == {NoPrice, 100}

\* A Python list read at index k; a negative index counts from the end.
PyAt(s, k) == IF k >= 0 THEN s[k + 1] ELSE s[Len(s) + k + 1]

\* dict.get(k, 0)
Get(d, k) == IF k \in DOMAIN d THEN d[k] ELSE 0

\* d[k] = v
Put(d, k, v) == [x \in DOMAIN d \cup {k} |-> IF x = k THEN v ELSE d[x]]

\* grid_strategy.py 75-82: base_price * (1 + i * 0.02) for i in -10..10,
\* ascending.
CreateGridLines(bp) == [k \in 1..21 |-> (bp * (100 + (k - 11) * 2)) \div 100]

\* grid_strategy.py 54-64
GridStart ==
    /\ grid_pc = "new"
    /\ grid_pc' = "running"
    /\ IF p_base_price # NoPrice
       THEN /\ base_price' = p_base_price
            /\ grid_lines' = CreateGridLines(p_base_price)
            /\ current_position' = 10
       ELSE UNCHANGED <<base_price, grid_lines, current_position>>
    /\ UNCHANGED <<p_base_price, grid_order, buyprice, grid_positions,
                   total_position, grid_position, cash, dataclose, queue,
                   prev_counts, tape, first_run, strategyVars, liveVars, paramVars,
                   batchVars, indVars>>

\* self.buy(size=...), self.sell(size=...), self.close()
GridOrder(side, size) == [side |-> side, size |-> size]

\* grid_strategy.py 93-112: no position (or a short one).
CheckBuy(current_price) ==
    IF current_price <= PyAt(grid_lines, current_position - 1)
    THEN LET cp == current_position - 1
             value == position_size * current_price
             size == IF 100 * value > 95 * cash
                     THEN (95 * cash) \div (100 * current_price)
                     ELSE position_size
         IN  /\ current_position' = cp
             /\ IF size > 0
                THEN /\ grid_order' = GridOrder("buy", size)
                     /\ queue' = Append(queue, GridOrder("buy", size))
                     /\ grid_positions' = Put(grid_positions, cp, size)
                     /\ total_position' = total_position + size
                ELSE UNCHANGED <<grid_order, queue, grid_positions,
                                 total_position>>
    ELSE UNCHANGED <<current_position, grid_order, queue, grid_positions,
                     total_position>>

\* grid_strategy.py 132-145: profit_pct against take_profit 0.05 and
\* stop_loss 0.03; buyprice None or 0 skips the test.
ClosesOut(current_price) ==
    /\ buyprice # NoPrice
    /\ buyprice # 0
    /\ \/ 100 * (current_price - buyprice) >= 5 * buyprice
       \/ 100 * (current_price - buyprice) <= 0 - 3 * buyprice

\* grid_strategy.py 114-145: a position is held.
CheckSell(current_price) ==
    LET steps == current_price >= PyAt(grid_lines, current_position + 1)
        cp == IF steps THEN current_position + 1 ELSE current_position
        size_to_sell == IF steps THEN Get(grid_positions, cp - 1) ELSE 0
        sold == IF size_to_sell > 0
                THEN <<GridOrder("sell", size_to_sell)>> ELSE <<>>
        closed == IF ClosesOut(current_price)
                  THEN <<GridOrder("sell", grid_position)>> ELSE <<>>
        orders == sold \o closed
    IN  /\ current_position' = cp
        /\ queue' = queue \o orders
        /\ grid_order' = IF orders # <<>> THEN orders[Len(orders)]
                         ELSE grid_order
        /\ grid_positions' =
              IF closed # <<>> THEN <<>>
              ELSE IF sold # <<>> THEN Put(grid_positions, cp - 1, 0)
              ELSE grid_positions
        /\ total_position' =
              IF closed # <<>> THEN 0
              ELSE total_position - size_to_sell

\* grid_strategy.py 66-73, 84-145: next() on a bar with close
\* current_price, one of `prices`, in a run of at most n bars.
GridNextOver(prices, n) ==
    /\ grid_pc = "running"
    /\ Len(dataclose) < n
    /\ \E current_price \in prices :
          /\ dataclose' = Append(dataclose, current_price)
          /\ IF grid_order # NoOrder \/ grid_lines = <<>>
             THEN UNCHANGED <<current_position, grid_order, queue,
                              grid_positions, total_position>>
             ELSE IF grid_position <= 0
             THEN CheckBuy(current_price)
             ELSE CheckSell(current_price)
    /\ UNCHANGED <<grid_pc, p_base_price, base_price, grid_lines, buyprice,
                   grid_position, cash, prev_counts, tape, first_run,
                   strategyVars, liveVars, paramVars, batchVars, indVars>>

GridNext == GridNextOver(GridPrices, MaxGridBars)

\* Closes of a run that leaves the grid: below the lowest grid line of base
\* price 100 (80) and above the highest (120).
RunPrices == {78, 122}

GridRunNext == GridNextOver(RunPrices, MaxGridRunBars)

\* grid_strategy.py 147-166: notify_order for the broker's oldest order,
\* which the broker has completed at one of `prices`, or refused
\* (Canceled, Margin, Rejected).
GridNotifyOrderOver(prices) ==
    /\ grid_pc = "running"
    /\ queue # <<>>
    /\ queue' = Tail(queue)
    /\ grid_order' = NoOrder
    /\ LET o == Head(queue)
       IN  \/ \E price \in prices :
                 IF o.side = "buy"
                 THEN /\ o.size * price <= cash
                      /\ cash' = cash - o.size * price
                      /\ grid_position' = grid_position + o.size
                      /\ buyprice' = price
                 ELSE /\ cash' = cash + o.size * price
                      /\ grid_position' = grid_position - o.size
                      /\ UNCHANGED buyprice
           \/ UNCHANGED <<cash, grid_position, buyprice>>
    /\ UNCHANGED <<grid_pc, p_base_price, base_price, grid_lines,
                   current_position, grid_positions, total_position,
                   dataclose, prev_counts, tape, first_run, strategyVars, liveVars,
                   paramVars, batchVars, indVars>>

\* The broker completes the order at a price of the next bar, or refuses
\* it.
GridNotifyOrder == GridNotifyOrderOver(GridPrices)

\* The broker completes the order at the last close, or refuses it.
GridRunNotifyOrder == GridNotifyOrderOver({dataclose[Len(dataclose)]})

\* cerebro.run() returns (test_grid_strategy.py 22): the data has ended.
GridStop ==
    /\ grid_pc = "running"
    /\ dataclose # <<>>
    /\ grid_pc' = "stopped"
    /\ UNCHANGED <<p_base_price, base_price, grid_lines, current_position,
                   grid_order, buyprice, grid_positions, total_position,
                   grid_position, cash, dataclose, queue, prev_counts, tape,
                   first_run, strategyVars, liveVars, paramVars, batchVars, indVars>>

\* self.cerebro.broker.getvalue() (test_grid_strategy.py 21, 23): cash plus
\* the position at the last close.
BrokerValue ==
    cash + (IF dataclose = <<>> THEN 0
            ELSE grid_position * dataclose[Len(dataclose)])

InitGrid ==
    /\ fractal_len = 3
    /\ hub_strokes = 3
    /\ BatchIdle
    /\ IndInit
    /\ prev_counts = <<0, 0, 0>>
    /\ tape = <<>>
    /\ first_run = <<>>
    /\ position = 0
    /\ placed = <<>>
    /\ p_base_price \in BasePrices
    /\ GridInit
    /\ LiveIdle

NextGrid ==
    \/ GridStart
    \/ GridNext
    \/ GridNotifyOrder
    \/ GridStop

SpecGrid == InitGrid /\ [][NextGrid]_vars

\* A GridStrategy given base_price = 100, over a longer run of closes.
InitGridRun ==
    /\ fractal_len = 3
    /\ hub_strokes = 3
    /\ BatchIdle
    /\ IndInit
    /\ prev_counts = <<0, 0, 0>>
    /\ tape = <<>>
    /\ first_run = <<>>
    /\ position = 0
    /\ placed = <<>>
    /\ p_base_price = 100
    /\ GridInit
    /\ LiveIdle

NextGridRun ==
    \/ GridStart
    \/ GridRunNext
    \/ GridRunNotifyOrder
    \/ GridStop

SpecGridRun == InitGridRun /\ [][NextGridRun]_vars

\* --------------------------------------------------- LiveTradingBroker
\* The strategy thread and the sync thread of a LiveTradingBroker share its
\* fields without a lock; each step below is one access to them, and the
\* steps of the two threads interleave freely.

\* _sync_account (easytradebroker.py 87-102), called at the start of a
\* round of the sync thread (75): _cash and _value are written from the
\* balance; an empty balance or a failure leaves them.
SyncAccount ==
    /\ sync_pc = "account"
    /\ last_sync < MaxSyncs
    /\ IF trader = "None"
       THEN UNCHANGED <<self_cash, self_value>>
       ELSE \/ \E b \in Balances :
                 self_cash' = b.cash /\ self_value' = b.value
            \/ UNCHANGED <<self_cash, self_value>>
    /\ sync_pc' = "positions"
    /\ UNCHANGED <<trader, account, self_positions, positions, pos_k,
                   last_sync, got>>
    /\ UNCHANGED <<paramVars, batchVars, indVars, prev_counts, tape,
                   first_run, strategyVars, gridVars>>

\* The entries trader.position lists for account a: one per stock held, in
\* either order.
PositionLists(a) ==
    LET held == {s \in Stocks : a[s] > 0}
    IN  {l \in UNION {[1..n -> [code : held, size : 1..MaxShares]] :
                        n \in {Cardinality(held)}} :
            /\ \A s \in held : \E k \in 1..Len(l) : l[k].code = s
            /\ \A k \in 1..Len(l) : l[k].size = a[l[k].code]}

\* _sync_positions up to the read of the account (easytradebroker.py
\* 104-110): the early return without an interface, or positions read.
SyncPositionsRead ==
    /\ sync_pc = "positions"
    /\ IF trader = "None"
       THEN sync_pc' = "done" /\ UNCHANGED positions
       ELSE /\ positions' \in PositionLists(account)
            /\ sync_pc' = "clear"
    /\ UNCHANGED <<trader, account, self_cash, self_value, self_positions,
                   pos_k, last_sync, got>>
    /\ UNCHANGED <<paramVars, batchVars, indVars, prev_counts, tape,
                   first_run, strategyVars, gridVars>>

\* self._positions.clear() (easytradebroker.py 111)
SyncPositionsClear ==
    /\ sync_pc = "clear"
    /\ self_positions' = [s \in Stocks |-> Absent]
    /\ pos_k' = 1
    /\ sync_pc' = "fill"
    /\ UNCHANGED <<trader, account, self_cash, self_value, positions,
                   last_sync, got>>
    /\ UNCHANGED <<paramVars, batchVars, indVars, prev_counts, tape,
                   first_run, strategyVars, gridVars>>

\* One iteration of the for loop (easytradebroker.py 113-121): the entry of
\* one stock is stored.
SyncPositionsStore ==
    /\ sync_pc = "fill"
    /\ pos_k <= Len(positions)
    /\ self_positions' =
          [self_positions EXCEPT ![positions[pos_k].code] = positions[pos_k].size]
    /\ pos_k' = pos_k + 1
    /\ UNCHANGED <<trader, account, self_cash, self_value, sync_pc, positions,
                   last_sync, got>>
    /\ UNCHANGED <<paramVars, batchVars, indVars, prev_counts, tape,
                   first_run, strategyVars, gridVars>>

\* The end of the for loop (easytradebroker.py 123).
SyncPositionsDone ==
    /\ sync_pc = "fill"
    /\ pos_k > Len(positions)
    /\ sync_pc' = "done"
    /\ UNCHANGED <<trader, account, self_cash, self_value, self_positions,
                   positions, pos_k, last_sync, got>>
    /\ UNCHANGED <<paramVars, batchVars, indVars, prev_counts, tape,
                   first_run, strategyVars, gridVars>>

\* The end of a round of _sync_positions_thread (easytradebroker.py 78-85):
\* last_sync is set and the thread sleeps until the next round.
SyncRoundDone ==
    /\ sync_pc = "done"
    /\ last_sync' = last_sync + 1
    /\ sync_pc' = "account"
    /\ UNCHANGED <<trader, account, self_cash, self_value, self_positions,
                   positions, pos_k, got>>
    /\ UNCHANGED <<paramVars, batchVars, indVars, prev_counts, tape,
                   first_run, strategyVars, gridVars>>

\* What getposition returns for a stock code given the dict: the size of
\* bt.Position(size=...) for an entry, of the empty bt.Position() otherwise
\* (easytradebroker.py 141-148).
PositionSize(dict, code) ==
    IF dict[code] # Absent THEN dict[code] ELSE 0

\* getposition(data) on the strategy thread (easytradebroker.py 136-148).
GetPosition ==
    /\ \E code \in Stocks :
          got' = [code |-> code, size |-> PositionSize(self_positions, code)]
    /\ UNCHANGED <<trader, account, self_cash, self_value, self_positions,
                   sync_pc, positions, pos_k, last_sync>>
    /\ UNCHANGED <<paramVars, batchVars, indVars, prev_counts, tape,
                   first_run, strategyVars, gridVars>>

\* The account changes at the broker (orders fill): HeldStock stays held.
AccountChanges ==
    /\ trader = "connected"
    /\ account' \in Accounts
    /\ UNCHANGED <<trader, self_cash, self_value, self_positions, sync_pc,
                   positions, pos_k, last_sync, got>>
    /\ UNCHANGED <<paramVars, batchVars, indVars, prev_counts, tape,
                   first_run, strategyVars, gridVars>>

\* A LiveTradingBroker with its sync thread and a strategy reading
\* positions.
InitLive ==
    /\ fractal_len = 3
    /\ hub_strokes = 3
    /\ BatchIdle
    /\ IndIdle
    /\ prev_counts = <<0, 0, 0>>
    /\ tape = <<>>
    /\ first_run = <<>>
    /\ position = 0
    /\ placed = <<>>
    /\ GridIdle
    /\ LiveInit

NextLive ==
    \/ SyncAccount
    \/ SyncPositionsRead
    \/ SyncPositionsClear
    \/ SyncPositionsStore
    \/ SyncPositionsDone
    \/ SyncRoundDone
    \/ GetPosition
    \/ AccountChanges

SpecLive == InitLive /\ [][NextLive]_vars

\* The hub constructors of both implementations: either a ChartAnalyzer
\* runs _identify_hubs, or a ChanTheoryIndicator is stepped.
InitBoth == InitHubs \/ InitInd

NextBoth ==
    \/ NextHubs
    \/ (pc = "idle" /\ NextInd)

SpecBoth == InitBoth /\ [][NextBoth]_vars

\* ------------------------------------------------ properties: bar table
\* Row c of the reduced table has fractal_len - 1 rows on each side.
Centred(c) == c >= fractal_len - 1 /\ c <= Len(data) - fractal_len

WindowRows(c) == ((c - (fractal_len - 1))..(c + fractal_len - 1)) \ {c}

StrictlyHighest(c) ==
    \A j \in WindowRows(c) : At(data, j).High < At(data, c).High

StrictlyLowest(c) ==
    \A j \in WindowRows(c) : At(data, j).Low > At(data, c).Low

Recorded(ty, c, p) ==
    \E k \in 1..Len(fractals) :
        fractals[k].type = ty /\ fractals[k].index = c /\ fractals[k].price = p

\* C7: once _identify_fractals has run, a TOP fractal (index c, price
\* High[c]) is recorded iff row c is centred and its High is strictly above
\* every other High of its window; a BOTTOM fractal (index c, price Low[c])
\* iff its Low is strictly below every other Low; nothing else is recorded.
C7_FractalsAreStrictExtrema ==
    pc = "strokes" =>
        /\ \A c \in 0..(Len(data) - 1) :
              /\ Recorded("TOP", c, At(data, c).High)
                    <=> (Centred(c) /\ StrictlyHighest(c))
              /\ Recorded("BOTTOM", c, At(data, c).Low)
                    <=> (Centred(c) /\ StrictlyLowest(c))
        /\ \A k \in 1..Len(fractals) :
              /\ fractals[k].index \in 0..(Len(data) - 1)
              /\ fractals[k].type \in {"TOP", "BOTTOM"}
              /\ fractals[k].price =
                    IF fractals[k].type = "TOP"
                    THEN At(data, fractals[k].index).High
                    ELSE At(data, fractals[k].index).Low
              /\ \A m \in 1..Len(fractals) :
                    fractals[m].index = fractals[k].index => m = k

\* The example of the specification: Highs 1,2,3,2,1 and fractal_len 3 give
\* one TOP fractal at index 2 with price 3.
C7_Witness ==
    /\ pc = "strokes"
    /\ fractal_len = 3
    /\ Len(data) = 5
    /\ [k \in 1..5 |-> data[k].High] = <<1, 2, 3, 2, 1>>
    /\ Len(fractals) = 1
    /\ fractals[1].type = "TOP"
    /\ fractals[1].index = 2
    /\ fractals[1].price = 3

\* C9: in the batch analyzer no window of the reduced table satisfies the
\* TOP condition and the BOTTOM condition together.
C9_BatchTopBottomExclusive ==
    pc = "fractals" =>
        \A c \in 0..(Len(data) - 1) :
            Centred(c) =>
                ~(/\ IsTop(Window(data, c, fractal_len), fractal_len - 1)
                  /\ IsBottom(Window(data, c, fractal_len), fractal_len - 1))

\* A window of a table the reducer has shortened is being examined, and its
\* centre is a TOP.
C9_Witness ==
    /\ pc = "fractals"
    /\ Centred(i)
    /\ \E k \in 1..Len(data) : data[k].t # k - 1
    /\ IsTop(Window(data, i, fractal_len), fractal_len - 1)

\* ---------------------------------------------- properties: batch strokes
\* C1: every stroke of the batch analyzer makes progress in its direction:
\* end_price > start_price for UP, end_price < start_price for DOWN, and so
\* high > low.
C1_BatchStrokesMakeProgress ==
    \A k \in 1..Len(strokes) :
        /\ strokes[k].direction \in {"UP", "DOWN"}
        /\ strokes[k].direction = "UP" =>
              strokes[k].end_price > strokes[k].start_price
        /\ strokes[k].direction = "DOWN" =>
              strokes[k].end_price < strokes[k].start_price
        /\ strokes[k].high > strokes[k].low

\* _construct_strokes has recorded a DOWN and an UP stroke, and a fractal
\* that follows one of the other type has not become the end of a stroke.
C1_Witness ==
    /\ pc = "hubs"
    /\ \E k \in 1..Len(strokes) : strokes[k].direction = "UP"
    /\ \E k \in 1..Len(strokes) : strokes[k].direction = "DOWN"
    /\ \E k \in 2..Len(fractals) :
          /\ fractals[k].type # fractals[k - 1].type
          /\ \A m \in 1..Len(strokes) :
                strokes[m].end_index # fractals[k].index

\* One iteration of the loop of _construct_strokes, on the fractal
\* fractals[i + 1] (the list counted from 1).
StrokeLoopStep == pc = "strokes" /\ pc' = "strokes" /\ i' = i + 1

\* The direction the iteration works with: the established one, or the one
\* the very first fractal gives.
DirectionInEffect ==
    IF current_direction # "None" THEN current_direction
    ELSE IF fractals[1].type = "TOP" THEN "DOWN" ELSE "UP"

Opposite(dir) == IF dir = "UP" THEN "DOWN" ELSE "UP"

\* The candidate stroke from the anchor to fractals[i + 1] is valid.
CandidateValid ==
    \/ DirectionInEffect = "UP"
          /\ fractals[i + 1].price > current_start.price
    \/ DirectionInEffect = "DOWN"
          /\ fractals[i + 1].price < current_start.price

\* Exactly one stroke, from the anchor to fractals[i + 1], is appended; its
\* high and low are the two end prices.
OneStrokeAppended ==
    /\ Len(strokes') = Len(strokes) + 1
    /\ SubSeq(strokes', 1, Len(strokes)) = strokes
    /\ LET stroke == strokes'[Len(strokes')]
       IN  /\ stroke.direction = DirectionInEffect
           /\ stroke.start_index = current_start.index
           /\ stroke.end_index = fractals[i + 1].index
           /\ {stroke.high, stroke.low}
                 = {current_start.price, fractals[i + 1].price}
           /\ stroke.high > stroke.low

\* C24 as stated: for a fractal f of the type opposite to the anchor, a
\* valid candidate appends exactly one stroke from the anchor to f, flips
\* the direction and makes f the anchor; an invalid candidate leaves the
\* stroke list, the direction and the anchor unchanged.
C24_OppositeTypeFrame ==
    [][(StrokeLoopStep /\ fractals[i + 1].type # current_start.type) =>
          IF CandidateValid
          THEN /\ OneStrokeAppended
               /\ current_direction' = Opposite(DirectionInEffect)
               /\ current_start' = fractals[i + 1]
          ELSE /\ strokes' = strokes
               /\ current_direction' = current_direction
               /\ current_start' = current_start]_vars

\* C24, amended: as stated, except that an invalid candidate leaves the
\* direction unchanged only once it is established; the first fractal of
\* the opposite type establishes the direction (DOWN after a TOP, UP after
\* a BOTTOM) whether or not its candidate is valid.
C24_OppositeTypeFrameOnceEstablished ==
    [][(StrokeLoopStep /\ fractals[i + 1].type # current_start.type) =>
          IF CandidateValid
          THEN /\ OneStrokeAppended
               /\ current_direction' = Opposite(DirectionInEffect)
               /\ current_start' = fractals[i + 1]
          ELSE /\ strokes' = strokes
               /\ current_direction' = DirectionInEffect
               /\ current_start' = current_start]_vars

\* After TOP, BOTTOM (a DOWN stroke) the third fractal, a TOP not above
\* that BOTTOM, has recorded no UP stroke and the BOTTOM is still the
\* anchor.
C24_Witness ==
    /\ pc = "strokes"
    /\ i = 3
    /\ fractals[1].type = "TOP"
    /\ fractals[2].type = "BOTTOM"
    /\ fractals[2].price < fractals[1].price
    /\ fractals[3].type = "TOP"
    /\ fractals[3].price <= fractals[2].price
    /\ Len(strokes) = 1
    /\ current_direction = "UP"
    /\ current_start = fractals[2]

\* C27: for a fractal f of the same type as the anchor no stroke is
\* appended and the direction is unchanged; the anchor is replaced by f iff
\* a direction is established and f is strictly more extreme in that
\* direction (UP: f.price > anchor price; DOWN: f.price < anchor price);
\* while no direction is established the anchor stays the very first
\* fractal.
C27_SameTypeFrame ==
    [][(StrokeLoopStep /\ fractals[i + 1].type = current_start.type) =>
          /\ strokes' = strokes
          /\ current_direction' = current_direction
          /\ current_start' \in {current_start, fractals[i + 1]}
          /\ current_start' = fractals[i + 1] <=>
                \/ current_direction = "UP"
                      /\ fractals[i + 1].price > current_start.price
                \/ current_direction = "DOWN"
                      /\ fractals[i + 1].price < current_start.price
          /\ current_direction = "None" => current_start' = fractals[1]]_vars

\* After TOP, BOTTOM (a DOWN stroke; the direction is now UP) a second,
\* higher BOTTOM has replaced the first as the anchor.
C27_Witness ==
    /\ pc = "strokes"
    /\ i = 3
    /\ fractals[1].type = "TOP"
    /\ fractals[2].type = "BOTTOM"
    /\ fractals[3].type = "BOTTOM"
    /\ fractals[3].price > fractals[2].price
    /\ Len(strokes) = 1
    /\ current_direction = "UP"
    /\ current_start = fractals[3]

Alternating(s) ==
    \A k \in 1..(Len(s) - 1) : s[k].direction # s[k + 1].direction

\* C28: in both implementations consecutive strokes alternate in direction:
\* each stroke's direction is the opposite of its predecessor's.
C28_StrokesAlternate == Alternating(strokes) /\ Alternating(ind_strokes)

\* One series on which the analyzer and the indicator have each recorded a
\* second stroke.
C28_Witness == Len(strokes) >= 2 /\ Len(ind_strokes) >= 2

\* The rows the reducer is done with: while its loop runs, the rows before
\* row i and row i - 1 itself (positions 1..i); afterwards the whole table.
Reduced == IF pc = "inclusive" THEN Min2(i, Len(data)) ELSE Len(data)

Rising(prev_k, curr_k) ==
    curr_k.High > prev_k.High /\ curr_k.Low > prev_k.Low

Falling(prev_k, curr_k) ==
    curr_k.High < prev_k.High /\ curr_k.Low < prev_k.Low

Contains(a, b) == b.High <= a.High /\ b.Low >= a.Low

\* C30: no two adjacent bars of the reduced sequence are in containment;
\* every adjacent pair is strictly rising (high and low both strictly
\* greater) or strictly falling (both strictly lower); and when at least
\* two reduced bars exist the tracked direction equals the relation of the
\* last two reduced bars.
C30_ReducedBarsStrictlyOrdered ==
    /\ \A k \in 1..(Reduced - 1) :
          /\ ~Contains(data[k], data[k + 1])
          /\ ~Contains(data[k + 1], data[k])
          /\ Rising(data[k], data[k + 1]) \/ Falling(data[k], data[k + 1])
    /\ Reduced >= 2 =>
          /\ direction = "UP" <=> Rising(data[Reduced - 1], data[Reduced])
          /\ direction = "DOWN" <=> Falling(data[Reduced - 1], data[Reduced])

\* The reducer has finished a table in which it merged rows while the
\* direction was DOWN, and at least three reduced rows are left.
C30_Witness ==
    /\ pc = "fractals"
    /\ Len(data) >= 3
    /\ direction = "DOWN"
    /\ \E k \in 2..Len(data) :
          /\ data[k].Volume # 2 ^ data[k].t
          /\ Falling(data[k - 1], data[k])

\* The fractal recorded at bar index idx.
FractalOfIndex(idx) ==
    CHOOSE f \in {fractals[k] : k \in 1..Len(fractals)} : f.index = idx

AnchorMatchesDirection ==
    current_direction # "None" =>
        /\ current_direction = "UP" <=> current_start.type = "BOTTOM"
        /\ current_direction = "DOWN" <=> current_start.type = "TOP"

StrokesRunBetweenOppositeFractals ==
    \A k \in 1..Len(strokes) :
        LET from == FractalOfIndex(strokes[k].start_index)
            to == FractalOfIndex(strokes[k].end_index)
        IN  /\ strokes[k].direction = "UP" =>
                  from.type = "BOTTOM" /\ to.type = "TOP"
            /\ strokes[k].direction = "DOWN" =>
                  from.type = "TOP" /\ to.type = "BOTTOM"
            /\ strokes[k].start_index < strokes[k].end_index
            /\ k < Len(strokes) =>
                  strokes[k + 1].start_index >= strokes[k].end_index

\* C31: whenever a direction is established it is UP exactly when the
\* anchor current_start is a BOTTOM fractal and DOWN exactly when it is a
\* TOP fractal, and the opposite-type branch is never entered with
\* direction None; every UP stroke runs from a BOTTOM fractal to a later
\* TOP fractal, every DOWN stroke from a TOP to a later BOTTOM,
\* start_index < end_index, and
\* strokes[k+1].start_index >= strokes[k].end_index.
C31_DirectionMatchesAnchor ==
    /\ [](AnchorMatchesDirection /\ StrokesRunBetweenOppositeFractals)
    /\ [][(StrokeLoopStep /\ fractals[i + 1].type # current_start.type) =>
             FirstDirection(current_direction, fractals[1], fractals[i + 1])
                # "None"]_vars

\* Two strokes have been built, the second from an anchor that replaced the
\* fractal the first stroke ended at.
C31_Witness ==
    /\ pc = "strokes"
    /\ Len(strokes) = 2
    /\ strokes[2].start_index > strokes[1].end_index
    /\ current_direction # "None"
    /\ current_start = FractalOfIndex(strokes[2].end_index)

\* C33: along the indicator's stroke list the stroke highs are
\* non-decreasing and the stroke lows are non-increasing, so each stroke's
\* price range contains the previous stroke's range, and each new stroke
\* starts at the index where the previous stroke ends.
C33_IndStrokesWiden ==
    \A k \in 1..(Len(ind_strokes) - 1) :
        /\ ind_strokes[k + 1].high >= ind_strokes[k].high
        /\ ind_strokes[k + 1].low <= ind_strokes[k].low
        /\ ind_strokes[k + 1].start_index = ind_strokes[k].end_index

\* A stroke strictly wider than its predecessor that ends more than one
\* confirming bar after the predecessor's end.
C33_Witness ==
    /\ Len(ind_strokes) >= 2
    /\ \E k \in 1..(Len(ind_strokes) - 1) :
          /\ ind_strokes[k + 1].high > ind_strokes[k].high
             \/ ind_strokes[k + 1].low < ind_strokes[k].low
          /\ ind_strokes[k + 1].end_index > ind_strokes[k + 1].start_index + 1

\* ------------------------------------------------------ properties: hubs
\* The strokes a hub spans, as positions in the stroke list (1-based): the
\* stroke that starts at the hub's start_index up to the stroke that ends at
\* its end_index.
FirstStrokeOf(h) ==
    CHOOSE k \in 1..Len(strokes) : strokes[k].start_index = h.start_index

LastStrokeOf(h) ==
    CHOOSE k \in 1..Len(strokes) : strokes[k].end_index = h.end_index

WindowValid(k) ==
    HubTop(Highs(StrokeWindow(k))) > HubBottom(Lows(StrokeWindow(k)))

HubSpansCounted ==
    \A k \in 1..Len(hubs) :
        /\ hubs[k].strokes = LastStrokeOf(hubs[k]) - FirstStrokeOf(hubs[k]) + 1
        /\ hubs[k].strokes >= hub_strokes

HubsDisjointInOrder ==
    \A k \in 1..(Len(hubs) - 1) :
        LastStrokeOf(hubs[k]) < FirstStrokeOf(hubs[k + 1])

\* C29: after a hub is recorded the search resumes at the first stroke the
\* hub did not absorb; after an invalid window the window slides by exactly
\* one stroke.  So no stroke is counted in two hubs, each hub's stroke count
\* is the number of consecutive strokes it spans (at least hub_strokes), and
\* hubs are recorded in strictly increasing stroke order.
C29_HubSearchResumes ==
    /\ [](HubSpansCounted /\ HubsDisjointInOrder)
    /\ [][/\ (pc = "extend" /\ pc' = "hubs") =>
               /\ hubs' = Append(hubs, hub)
               /\ FirstStrokeOf(hub) = i + 1
               /\ i' = LastStrokeOf(hub)
          /\ (pc = "hubs" /\ i <= Len(strokes) - hub_strokes
                 /\ ~WindowValid(i)) =>
               /\ i' = i + 1
               /\ hubs' = hubs
               /\ pc' = "hubs"]_vars

\* The first window was not a hub and the search slid on; the hub then
\* found absorbed a further stroke and was recorded.
C29_Witness ==
    /\ pc = "hubs"
    /\ Len(hubs) = 1
    /\ FirstStrokeOf(hubs[1]) > 1
    /\ hubs[1].strokes > hub_strokes
    /\ i = LastStrokeOf(hubs[1])

\* The stroke the inner loop of _identify_hubs looks at overlaps the open
\* hub.
NextStrokeOverlaps ==
    /\ pc = "extend"
    /\ next_idx < Len(strokes)
    /\ At(strokes, next_idx).low <= hub.top
    /\ At(strokes, next_idx).high >= hub.bottom

\* The bounds of the window a hub was opened from, the window starting at
\* stroke k (counted from 0).
WithinInitialWindow(h, k) ==
    /\ h.top >= HubTop(Highs(StrokeWindow(k)))
    /\ h.bottom <= HubBottom(Lows(StrokeWindow(k)))

\* C32: whenever a stroke overlaps the open hub (low <= top and
\* high >= bottom) the recomputed bounds satisfy new_top > new_bottom, so
\* the stroke is always absorbed and the branch that closes the hub without
\* absorbing is unreachable; a hub closes only on a non-overlapping stroke
\* or at the end of the stroke list, and its top is never below, and its
\* bottom never above, those of its initial window.
C32_OverlappingStrokeAlwaysAbsorbed ==
    /\ [](NextStrokeOverlaps =>
             NewHubTop(highs, At(strokes, next_idx))
                > NewHubBottom(lows, At(strokes, next_idx)))
    /\ [](pc = "extend" => WithinInitialWindow(hub, i))
    /\ [](\A k \in 1..Len(hubs) :
             WithinInitialWindow(hubs[k], FirstStrokeOf(hubs[k]) - 1))
    /\ [][/\ NextStrokeOverlaps =>
               /\ pc' = "extend"
               /\ next_idx' = next_idx + 1
               /\ hub'.strokes = hub.strokes + 1
               /\ hub'.end_index = At(strokes, next_idx).end_index
               /\ hubs' = hubs
          /\ (pc = "extend" /\ pc' = "hubs") =>
               \/ next_idx >= Len(strokes)
               \/ At(strokes, next_idx).low > hub.top
               \/ At(strokes, next_idx).high < hub.bottom]_vars

\* A hub that absorbed an overlapping stroke has been closed by a stroke
\* that does not overlap it.
C32_Witness ==
    /\ pc = "hubs"
    /\ Len(hubs) >= 1
    /\ LET h == hubs[Len(hubs)]
       IN  /\ h.strokes > hub_strokes
           /\ i < Len(strokes)
           /\ i = LastStrokeOf(h)
           /\ \/ At(strokes, i).low > h.top
              \/ At(strokes, i).high < h.bottom

\* The second-highest and the second-lowest element of a list of prices:
\* what is left on top (at the bottom) once one occurrence of the highest
\* (lowest) is taken away.
WithoutOne(s, m) == {k \in 1..Len(s) : k # m}

SecondHighest(s) ==
    LET m == CHOOSE k \in 1..Len(s) : \A j \in 1..Len(s) : s[k] >= s[j]
    IN  CHOOSE v \in {s[k] : k \in WithoutOne(s, m)} :
            \A k \in WithoutOne(s, m) : v >= s[k]

SecondLowest(s) ==
    LET m == CHOOSE k \in 1..Len(s) : \A j \in 1..Len(s) : s[k] <= s[j]
    IN  CHOOSE v \in {s[k] : k \in WithoutOne(s, m)} :
            \A k \in WithoutOne(s, m) : v <= s[k]

\* C3: in both implementations every hub has top > bottom: the recorded
\* hubs and the hub being extended of the batch analyzer, and the hubs of
\* the streaming indicator, at creation and after every update.
C3_HubTopAboveBottom ==
    /\ \A k \in 1..Len(hubs) : hubs[k].top > hubs[k].bottom
    /\ pc = "extend" => hub.top > hub.bottom
    /\ \A k \in 1..Len(ind_hubs) : ind_hubs[k].top > ind_hubs[k].bottom

\* A hub of the batch analyzer has absorbed a stroke beyond its window and
\* its bounds moved when it did.
C3_Witness ==
    /\ pc = "extend"
    /\ hub.strokes > hub_strokes
    /\ hub.top # HubTop(highs)

\* The batch analyzer examines the window of strokes at i.
BatchWindowStep == pc = "hubs" /\ (pc' = "extend" \/ i' = i + 1)

\* The streaming indicator's break-out of the last stroke from the last hub
\* (chan_theory.py 277, 287).
BreakOut(st, hb) ==
    LET last_hub == hb[Len(hb)]
        last_stroke == st[Len(st)]
    IN  \/ (last_stroke.direction = "UP" /\ last_stroke.low > last_hub.top)
        \/ (last_stroke.direction = "DOWN" /\ last_stroke.high < last_hub.bottom)

\* next() confirms a fractal and _create_new_hub examines the last
\* hub_strokes strokes.
IndWindowStep ==
    /\ Len(fractal_data') = Len(fractal_data) + 1
    /\ Len(ind_strokes') >= hub_strokes
    /\ (ind_hubs = <<>> \/ BreakOut(ind_strokes', ind_hubs))

RecentStrokes(st) == SubSeq(st, Len(st) - hub_strokes + 1, Len(st))

\* C4: a window of hub_strokes strokes opens a hub iff the second-highest
\* of its highs is above the second-lowest of its lows, and the hub opened
\* has these two as top and bottom; in the batch analyzer and in the
\* streaming indicator.
C4_HubOpenedFromWindow ==
    [][/\ BatchWindowStep =>
            LET w == StrokeWindow(i)
            IN  /\ pc' = "extend"
                      <=> SecondHighest(Highs(w)) > SecondLowest(Lows(w))
                /\ pc' = "extend" =>
                      /\ hub'.top = SecondHighest(Highs(w))
                      /\ hub'.bottom = SecondLowest(Lows(w))
       /\ IndWindowStep =>
            LET w == RecentStrokes(ind_strokes')
            IN  /\ Len(ind_hubs') = Len(ind_hubs) + 1
                      <=> SecondHighest(Highs(w)) > SecondLowest(Lows(w))
                /\ Len(ind_hubs') = Len(ind_hubs) + 1 =>
                      /\ ind_hubs'[Len(ind_hubs')].top = SecondHighest(Highs(w))
                      /\ ind_hubs'[Len(ind_hubs')].bottom = SecondLowest(Lows(w))
       /\ Len(ind_hubs') > Len(ind_hubs) => IndWindowStep
       /\ (pc = "hubs" /\ pc' = "extend") => BatchWindowStep
      ]_vars

\* The batch analyzer has opened a hub from a window whose highs are not
\* all equal and whose lows are not all equal.
C4_Witness ==
    /\ pc = "extend"
    /\ hub.strokes = hub_strokes
    /\ hub_strokes = 3
    /\ hub.top = highs[2]
    /\ hub.bottom = lows[2]
    /\ highs[1] > highs[2]
    /\ lows[1] < lows[2]

\* C5: each time the open hub of the batch analyzer absorbs a stroke, its
\* top and bottom become the second-highest high and the second-lowest low
\* among all the strokes it has absorbed (strokes i .. next_idx - 1) and
\* the new stroke (stroke next_idx).
C5_AbsorbRecomputesOverAll ==
    [][(pc = "extend" /\ pc' = "extend" /\ next_idx' = next_idx + 1) =>
          LET all == SubSeq(strokes, i + 1, next_idx + 1)
          IN  /\ hub'.top = SecondHighest(Highs(all))
              /\ hub'.bottom = SecondLowest(Lows(all))
      ]_vars

\* A stroke lies entirely outside the hub h.
Outside(h, stroke) == stroke.low > h.top \/ stroke.high < h.bottom

\* C6: a stroke entirely outside the open hub closes it without being
\* absorbed: the hub is recorded with the top, bottom, end_index, end_time
\* and stroke count it had, the search goes on from that stroke, and no
\* recorded hub ever changes.
C6_OutsideStrokeClosesHub ==
    [][/\ (pc = "extend" /\ next_idx < Len(strokes)
              /\ Outside(hub, At(strokes, next_idx))) =>
            /\ hubs' = Append(hubs, hub)
            /\ pc' = "hubs"
            /\ i' = next_idx
       /\ Len(hubs') >= Len(hubs)
       /\ \A k \in 1..Len(hubs) : hubs'[k] = hubs[k]
      ]_vars

\* The example of the specification: a hub of three strokes has been closed
\* by a fourth stroke that lies entirely above its top, and later strokes
\* were examined after it.
C6_Witness ==
    /\ pc = "divergence"
    /\ hub_strokes = 3
    /\ Len(strokes) >= 5
    /\ Len(hubs) >= 1
    /\ hubs[1].strokes = 3
    /\ hubs[1].end_index = strokes[3].end_index
    /\ strokes[4].low > hubs[1].top

\* ------------------------------------- properties: streaming indicator
\* C2: every stroke of the streaming indicator, the first one included, has
\* high > low.
C2_IndStrokesHighAboveLow ==
    \A k \in 1..Len(ind_strokes) : ind_strokes[k].high > ind_strokes[k].low

\* C8: a fractal appended to fractal_data carries the High (TOP) or Low
\* (BOTTOM), the number and the time of the centre bar of its window, the
\* bar fractal_len - 1 bars before the bar that confirms it.
C8_FractalCarriesCentreBar ==
    [][Len(fractal_data') = Len(fractal_data) + 1 =>
          LET f == fractal_data'[Len(fractal_data')]
              c == Len(feed') - (fractal_len - 1)
          IN  /\ f.type = "top" => f.high = feed'[c].High
              /\ f.type = "bottom" => f.low = feed'[c].Low
              /\ f.index = c
              /\ f.time = c
      ]_vars

\* C10: in the streaming indicator no window examined by _identify_fractal
\* satisfies the TOP condition and the BOTTOM condition together.
C10_IndTopBottomExclusive ==
    Len(feed) >= 2 * fractal_len - 1 =>
        ~(/\ IndIsTop(Back(feed, fractal_len), fractal_len - 1)
          /\ IndIsBottom(Back(feed, fractal_len), fractal_len - 1))

\* All of old but its last element is kept, in place, and old's last
\* element is kept as well when new is longer.
KeepsAllButLast(old, new) ==
    /\ Len(new) >= Len(old)
    /\ \A k \in 1..Len(old) :
          (k < Len(old) \/ Len(new) > Len(old)) => new[k] = old[k]

\* C11: across the calls of next() the lists fractal_data, strokes and hubs
\* of the streaming indicator only grow; a recorded fractal is never
\* modified; a call leaves every stroke and every hub unchanged except,
\* at most, the last stroke and the last hub.
C11_IndListsAppendOnly ==
    [][/\ Len(fractal_data') >= Len(fractal_data)
       /\ \A k \in 1..Len(fractal_data) : fractal_data'[k] = fractal_data[k]
       /\ KeepsAllButLast(ind_strokes, ind_strokes')
       /\ KeepsAllButLast(ind_hubs, ind_hubs')
      ]_vars

\* The streaming indicator holds a hub that was adjusted in place after it
\* was created (its bounds are no longer those of the window of strokes it
\* was created from) and a stroke added after that window.
C11_Witness ==
    \E h \in 1..Len(ind_hubs) :
        \E j \in 1..(Len(ind_strokes) - hub_strokes) :
            LET w == SubSeq(ind_strokes, j, j + hub_strokes - 1)
            IN  /\ w[1].start_index = ind_hubs[h].start_index
                /\ w[hub_strokes].end_index = ind_hubs[h].end_index
                /\ \/ ind_hubs[h].top # IndHubTop(w)
                   \/ ind_hubs[h].bottom # IndHubBottom(w)

\* ----------------------------------------- properties: the two drivers
\* C12: when the batch analyzer is run over growing prefixes of one bar
\* series, the numbers of fractals, strokes and hubs it computes for the
\* first n + 1 bars are each at least the numbers it computed for the
\* first n bars.
C12_PrefixCountsNonDecreasing ==
    pc = "divergence" =>
        /\ Len(fractals) >= prev_counts[1]
        /\ Len(strokes) >= prev_counts[2]
        /\ Len(hubs) >= prev_counts[3]

\* C13: fed the same bar sequence, the streaming indicator and the batch
\* analyzer yield the same fractals (types and prices), the same strokes
\* (directions, highs and lows) and the same hubs (tops and bottoms).
C13_StreamingEqualsBatch ==
    pc = "divergence" =>
        /\ Len(fractal_data) = Len(fractals)
        /\ \A k \in 1..Len(fractals) :
              /\ fractals[k].type = "TOP" =>
                    /\ fractal_data[k].type = "top"
                    /\ fractal_data[k].high = fractals[k].price
              /\ fractals[k].type = "BOTTOM" =>
                    /\ fractal_data[k].type = "bottom"
                    /\ fractal_data[k].low = fractals[k].price
        /\ Len(ind_strokes) = Len(strokes)
        /\ \A k \in 1..Len(strokes) :
              /\ ind_strokes[k].direction = strokes[k].direction
              /\ ind_strokes[k].high = strokes[k].high
              /\ ind_strokes[k].low = strokes[k].low
        /\ Len(ind_hubs) = Len(hubs)
        /\ \A k \in 1..Len(hubs) :
              /\ ind_hubs[k].top = hubs[k].top
              /\ ind_hubs[k].bottom = hubs[k].bottom

\* ------------------------------------------- properties: the bar reducer
\* One iteration of the reducer's loop, on the last reduced bar (row i - 1)
\* and the incoming bar (row i).
ReducerStep == pc = "inclusive" /\ pc' = "inclusive"

\* The range [Low, High] of bar a lies within the range of bar b.
Within(a, b) == a.Low >= b.Low /\ a.High <= b.High

\* The row was written by a merge: its Volume is not that of its own
\* timestamp.
IsMerged(row) == row.Volume # 2 ^ row.t

\* C14: when the incoming bar and the last reduced bar are in containment
\* the last reduced bar is replaced by their merge and the sequence gets one
\* row shorter: under direction UP the merge has the higher high and the
\* higher low, under DOWN the lower high and the lower low; its volume is
\* the sum, its open the earlier bar's open, and its close the incoming
\* bar's close iff the incoming bar supplies the surviving high (UP) or low
\* (DOWN).  Without containment nothing is changed and the incoming bar
\* stays as the next row.
C14_MergeRule ==
    [][ReducerStep =>
          LET prev_k == At(data, i - 1)
              curr_k == At(data, i)
              merged == At(data', i - 1)
          IN  IF Within(curr_k, prev_k) \/ Within(prev_k, curr_k)
              THEN /\ Len(data') = Len(data) - 1
                   /\ \A k \in 1..(i - 1) : data'[k] = data[k]
                   /\ \A k \in (i + 1)..Len(data') : data'[k] = data[k + 1]
                   /\ direction = "UP" =>
                         /\ merged.High = Max2(prev_k.High, curr_k.High)
                         /\ merged.Low = Max2(prev_k.Low, curr_k.Low)
                         /\ (merged.Close = curr_k.Close)
                               <=> (curr_k.High >= prev_k.High)
                   /\ direction = "DOWN" =>
                         /\ merged.High = Min2(prev_k.High, curr_k.High)
                         /\ merged.Low = Min2(prev_k.Low, curr_k.Low)
                         /\ (merged.Close = curr_k.Close)
                               <=> (curr_k.Low <= prev_k.Low)
                   /\ merged.Close \in {prev_k.Close, curr_k.Close}
                   /\ merged.Volume = prev_k.Volume + curr_k.Volume
                   /\ merged.Open = prev_k.Open
                   /\ merged.t = prev_k.t
              ELSE /\ data' = data
                   /\ i' = i + 1
      ]_vars

\* The reducer has just merged under direction UP and the merged row took
\* the incoming bar's close.
C14_Witness ==
    /\ pc = "inclusive"
    /\ direction = "UP"
    /\ i <= Len(data)
    /\ IsMerged(At(data, i - 1))
    /\ At(data, i - 1).Close # At(data, i - 1).Open

\* C15 as stated: after every merge the merged bar's high is the highest
\* high and its low is the lowest low of the two bars that were merged.
C15_MergeKeepsBothExtremes ==
    [][(ReducerStep /\ Len(data') < Len(data)) =>
          /\ At(data', i - 1).High = Max2(At(data, i - 1).High, At(data, i).High)
          /\ At(data', i - 1).Low = Min2(At(data, i - 1).Low, At(data, i).Low)
      ]_vars

\* C15 as amended: after every merge the merged bar carries the extreme of
\* the two merged bars on the side of the direction: under UP its high is
\* the highest high of the two, under DOWN its low is the lowest low of the
\* two; its other bound is one of the two bars' bounds on that side.
C15_MergeKeepsDirectionExtreme ==
    [][(ReducerStep /\ Len(data') < Len(data)) =>
          LET prev_k == At(data, i - 1)
              curr_k == At(data, i)
              merged == At(data', i - 1)
          IN  /\ direction = "UP" =>
                    merged.High = Max2(prev_k.High, curr_k.High)
              /\ direction = "DOWN" =>
                    merged.Low = Min2(prev_k.Low, curr_k.Low)
              /\ merged.High \in {prev_k.High, curr_k.High}
              /\ merged.Low \in {prev_k.Low, curr_k.Low}
      ]_vars

\* The reducer has just merged under direction DOWN, and the merged row
\* kept the close of the earlier bar.
C15_Witness ==
    /\ pc = "inclusive"
    /\ direction = "DOWN"
    /\ i <= Len(data)
    /\ IsMerged(At(data, i - 1))
    /\ At(data, i - 1).Close = At(data, i - 1).Open

\* ---------------------------------- properties: the divergence detector
\* Fractals a and b of the list are consecutive fractals of one type: b
\* comes after a and no fractal of their type lies between them.
ConsecutiveOfType(a, b) ==
    /\ a < b
    /\ fractals[a].type = fractals[b].type
    /\ \A m \in (a + 1)..(b - 1) : fractals[m].type # fractals[a].type

\* The divergence the claim requires for the pair (a, b), if any.
Diverges(a, b) ==
    IF fractals[a].type = "TOP"
    THEN /\ fractals[b].price > fractals[a].price
         /\ macd[fractals[b].index] <= macd[fractals[a].index]
    ELSE /\ fractals[b].price < fractals[a].price
         /\ macd[fractals[b].index] >= macd[fractals[a].index]

\* What a divergence record must hold for the pair (a, b).
Holds(d, a, b) ==
    /\ d.type = fractals[a].type
    /\ d.first_idx = fractals[a].index
    /\ d.second_idx = fractals[b].index
    /\ d.first_price = fractals[a].price
    /\ d.second_price = fractals[b].price
    /\ d.first_macd = macd[fractals[a].index]
    /\ d.second_macd = macd[fractals[b].index]

\* C16: the oscillator being a given value per bar, for every pair of
\* consecutive fractals of one type a TOP divergence is recorded iff the
\* later price is strictly higher and the later oscillator value is <= the
\* earlier one, a BOTTOM divergence iff the later price is strictly lower
\* and the later oscillator value is >= the earlier one; nothing else is
\* recorded, and each record stores those two fractals' indices, prices and
\* oscillator values.
C16_DivergencesAreTheDivergingPairs ==
    pc = "done" =>
        /\ \A a, b \in 1..Len(fractals) :
              ConsecutiveOfType(a, b) =>
                  (Diverges(a, b) <=>
                      \E k \in 1..Len(divergences) : Holds(divergences[k], a, b))
        /\ \A k \in 1..Len(divergences) :
              \E a, b \in 1..Len(fractals) :
                  /\ ConsecutiveOfType(a, b)
                  /\ Diverges(a, b)
                  /\ Holds(divergences[k], a, b)
        /\ \A k, m \in 1..Len(divergences) :
              divergences[k] = divergences[m] => k = m

\* The detector has recorded a TOP divergence between two tops that have a
\* bottom between them, and has passed over a pair of bottoms whose price
\* fell while the oscillator fell too.
C16_Witness ==
    /\ pc = "done"
    /\ \E k \in 1..Len(divergences) :
          /\ divergences[k].type = "TOP"
          /\ divergences[k].second_idx - divergences[k].first_idx > 5
    /\ \E a, b \in 1..Len(fractals) :
          /\ ConsecutiveOfType(a, b)
          /\ fractals[a].type = "BOTTOM"
          /\ fractals[b].price < fractals[a].price
          /\ ~Diverges(a, b)

\* ------------------------------------ properties: the indicator's strokes
\* next() has confirmed a fractal: fractal_data has grown by one.
FractalConfirmed == Len(fractal_data') = Len(fractal_data) + 1

NewFractal == fractal_data'[Len(fractal_data')]

LastStroke == ind_strokes[Len(ind_strokes)]

\* A stroke from the end of the last stroke to the new fractal is appended.
StrokeFromAnchorAppended(dir) ==
    /\ Len(ind_strokes') = Len(ind_strokes) + 1
    /\ LET stroke == ind_strokes'[Len(ind_strokes')]
       IN  /\ stroke.direction = dir
           /\ stroke.start_index = LastStroke.end_index
           /\ stroke.end_index = NewFractal.index

\* C25: with the end of the last stroke as the anchor, whenever a newly
\* confirmed fractal has the type opposite to the anchor and its price is
\* beyond the anchor's price in the new direction (a BOTTOM whose low is
\* below the last UP stroke's high, a TOP whose high is above the last
\* DOWN stroke's low), a new stroke from the anchor to that fractal is
\* appended.
C25_OppositeFractalBeyondAnchorOpensStroke ==
    [][(FractalConfirmed /\ ind_strokes # <<>>) =>
          /\ (/\ LastStroke.direction = "UP"
              /\ NewFractal.type = "bottom"
              /\ NewFractal.low < LastStroke.high)
                => StrokeFromAnchorAppended("DOWN")
          /\ (/\ LastStroke.direction = "DOWN"
              /\ NewFractal.type = "top"
              /\ NewFractal.high > LastStroke.low)
                => StrokeFromAnchorAppended("UP")]_vars

\* C26: while no stroke exists, the first confirmed fractal whose type
\* differs from the very first fractal's type creates the first stroke,
\* however many fractals of the first one's type preceded it; so once
\* fractals of both types have been confirmed the stroke list is not empty.
C26_BothTypesGiveFirstStroke ==
    (\E a \in 1..Len(fractal_data) : \E b \in 1..Len(fractal_data) :
        fractal_data[a].type # fractal_data[b].type)
    => ind_strokes # <<>>

C23_DefaultRunEndsWithProfit ==
    (grid_pc = "stopped" /\ p_base_price = NoPrice) =>
        BrokerValue > startingcash

\* ------------------------------------------- properties: the strategy
BuySignals(ln) ==
    {n \in {"buy1", "buy2", "buy3"} : ln[n] > 0}

SellSignals(ln) ==
    {n \in {"sell1", "sell2", "sell3"} : ln[n] > 0}

\* The first name of names, in the order 1, 2, 3, that is in set.
FirstOf(names, set) ==
    IF names[1] \in set THEN names[1]
    ELSE IF names[2] \in set THEN names[2]
    ELSE names[3]

\* C22: on each bar ChanTheoryStrategy.next places at most one order; when
\* flat it places a single buy iff at least one of buy1, buy2, buy3 is set,
\* on behalf of the first of them that is set, and never a sell; when
\* holding a position it places a single sell iff at least one of sell1,
\* sell2, sell3 is set, likewise, and never a buy.
C22_OneOrderByPriority ==
    [][StrategyNext =>
        /\ Len(placed') <= 1
        /\ position = 0 =>
              /\ \A k \in 1..Len(placed') : placed'[k].side = "buy"
              /\ placed' # <<>> <=> BuySignals(lines') # {}
              /\ placed' # <<>> =>
                    placed'[1].by
                        = FirstOf(<<"buy1", "buy2", "buy3">>, BuySignals(lines'))
        /\ position # 0 =>
              /\ \A k \in 1..Len(placed') : placed'[k].side = "sell"
              /\ placed' # <<>> <=> SellSignals(lines') # {}
              /\ placed' # <<>> =>
                    placed'[1].by
                        = FirstOf(<<"sell1", "sell2", "sell3">>,
                                  SellSignals(lines'))]_vars

\* While a position is held, next() has placed one sell on a bar that
\* shows sell2 and sell3 together with buy signals.
C22_Witness ==
    /\ position # 0
    /\ lines.sell1 = 0 /\ lines.sell2 = 1 /\ lines.sell3 = 1
    /\ lines.buy1 = 1
    /\ placed = <<Order("sell", "sell2")>>

\* --------------------------------------- properties: the configuration
\* The documented default of the parameter min_stroke_len of both classes.
min_stroke_len == 5

\* C19: with an invalid configuration (fractal_len < 2) construction fails
\* before any bar is processed: no bar is taken in and no fractal, stroke
\* or hub is produced by either class.
C19_InvalidConfigurationProcessesNothing ==
    fractal_len < 2 =>
        /\ count = 0
        /\ data = <<>>
        /\ fractals = <<>> /\ strokes = <<>> /\ hubs = <<>>
        /\ fractal_data = <<>> /\ ind_strokes = <<>> /\ ind_hubs = <<>>

\* C18: every stroke produced by ChartAnalyzer and by ChanTheoryIndicator
\* spans at least min_stroke_len bars: end_index - start_index >=
\* min_stroke_len - 1.
C18_StrokesSpanMinStrokeLen ==
    /\ \A k \in 1..Len(strokes) :
          strokes[k].end_index - strokes[k].start_index >= min_stroke_len - 1
    /\ \A k \in 1..Len(ind_strokes) :
          ind_strokes[k].end_index - ind_strokes[k].start_index
              >= min_stroke_len - 1

\* All twelve output lines at the current bar.
OutputLines ==
    {lines.buy1, lines.buy2, lines.buy3, lines.sell1, lines.sell2, lines.sell3,
     lines.top_fractal, lines.bottom_fractal, lines.stroke_high,
     lines.stroke_low, lines.hub_top, lines.hub_bottom}

\* C20: insufficient data is a silent no-op.  While the indicator has seen
\* fewer than 2 * fractal_len - 1 bars it has recorded no fractal, stroke or
\* hub and all its output lines are 0; an analyzer over fewer than
\* 2 * fractal_len - 1 (reduced) bars has neither; in both classes fewer than
\* 2 fractals yield no stroke and fewer than hub_strokes strokes yield no hub.
C20_InsufficientDataIsNoOp ==
    /\ count < 2 * fractal_len - 1 =>
          /\ fractal_data = <<>> /\ ind_strokes = <<>> /\ ind_hubs = <<>>
          /\ OutputLines = {0}
    /\ Len(data) < 2 * fractal_len - 1 =>
          fractals = <<>> /\ strokes = <<>> /\ hubs = <<>>
    /\ Len(fractal_data) < 2 => ind_strokes = <<>>
    /\ Len(fractals) < 2 => strokes = <<>>
    /\ Len(ind_strokes) < hub_strokes => ind_hubs = <<>>
    /\ Len(strokes) < hub_strokes => hubs = <<>>

\* Both classes have been run over 2 * fractal_len - 2 bars, none of them
\* merged by the reducer, of which the second is a strict high: one bar
\* short of the first window.
C20_Witness ==
    /\ pc = "divergence"
    /\ fractal_len = 3
    /\ count = 2 * fractal_len - 2
    /\ Len(data) = count
    /\ \A k \in 1..Len(feed) : k # 2 => feed[k].High < feed[2].High
    /\ fractals = <<>>
    /\ fractal_data = <<>>

\* ------------------------------- properties: the indicator's output lines
\* The six signal lines at the current bar.
SignalLines ==
    {lines.buy1, lines.buy2, lines.buy3, lines.sell1, lines.sell2, lines.sell3}

\* C17: on every bar the six signal lines of the streaming indicator are 0
\* unless, at that bar, at least one hub and at least hub_strokes + 1
\* strokes exist.
C17_SignalsNeedHubAndStrokes ==
    (ind_hubs = <<>> \/ Len(ind_strokes) < hub_strokes + 1) =>
        SignalLines = {0}

\* The indicator gives a signal on a bar at which it holds a hub and
\* exactly hub_strokes + 1 strokes.
C17_Witness ==
    /\ 1 \in SignalLines
    /\ ind_hubs # <<>>
    /\ Len(ind_strokes) = hub_strokes + 1


\* -------------------------- properties: the indicator's hubs and signals
\* The last stroke, as _update_hubs finds it after _update_strokes, has
\* broken out of hub h (chan_theory.py 276-277, 287-288).
BreaksOut(st, h) ==
    LET last_stroke == st[Len(st)]
    IN  \/ last_stroke.direction = "UP" /\ last_stroke.low > h.top
        \/ last_stroke.direction = "DOWN" /\ last_stroke.high < h.bottom

\* C34: the indicator's hub list never holds more than one hub; once the
\* first hub exists, the breakout conditions that call _create_new_hub (the
\* last UP stroke's low > hub top, or the last DOWN stroke's high < hub
\* bottom) are never satisfied.
C34_IndSingleHub ==
    /\ [](Len(ind_hubs) <= 1)
    /\ [](ind_hubs # <<>> => ~BreaksOut(ind_strokes, ind_hubs[Len(ind_hubs)]))
    /\ [][(FractalConfirmed /\ ind_hubs # <<>>) =>
             ~BreaksOut(ind_strokes', ind_hubs[Len(ind_hubs)])]_vars

\* The one hub exists and a stroke has been added since it was created.
C34_Witness ==
    /\ Len(ind_hubs) = 1
    /\ Len(ind_strokes) > hub_strokes
    /\ ind_hubs[1].end_index < ind_strokes[Len(ind_strokes)].end_index


\* C35: buy2 and sell2 are 0 on every bar, because the latest stroke's low
\* is never above, and its high never below, that of the stroke two
\* positions back.
C35_SecondSignalsNeverFire ==
    /\ lines.buy2 = 0
    /\ lines.sell2 = 0
    /\ Len(ind_strokes) >= 3 =>
          /\ ind_strokes[Len(ind_strokes)].low
                <= ind_strokes[Len(ind_strokes) - 2].low
          /\ ind_strokes[Len(ind_strokes)].high
                >= ind_strokes[Len(ind_strokes) - 2].high

\* A hub and hub_strokes + 1 strokes exist, the last stroke having the
\* direction of the stroke two positions back: the second-type tests are
\* reached on a bar that confirms a fractal.
C35_Witness ==
    /\ ind_hubs # <<>>
    /\ Len(ind_strokes) >= hub_strokes + 1
    /\ Len(ind_strokes) >= 3
    /\ ind_strokes[Len(ind_strokes)].direction
          = ind_strokes[Len(ind_strokes) - 2].direction
    /\ lines.top_fractal + lines.bottom_fractal > 0

\* C36: buy3 and sell3 are 0 on every bar, because the latest stroke's low
\* is never above the latest hub's top and its high is never below the
\* latest hub's bottom.
C36_ThirdSignalsNeverFire ==
    /\ lines.buy3 = 0
    /\ lines.sell3 = 0
    /\ (ind_hubs # <<>> /\ ind_strokes # <<>>) =>
          /\ ind_strokes[Len(ind_strokes)].low <= ind_hubs[Len(ind_hubs)].top
          /\ ind_strokes[Len(ind_strokes)].high
                >= ind_hubs[Len(ind_hubs)].bottom

\* A hub and hub_strokes + 1 strokes exist on a bar that confirms a
\* fractal, the stroke before the last reaching above the hub's top or
\* below its bottom: half of a third-type test holds.
C36_Witness ==
    /\ ind_hubs # <<>>
    /\ Len(ind_strokes) >= hub_strokes + 1
    /\ lines.top_fractal + lines.bottom_fractal > 0
    /\ \/ ind_strokes[Len(ind_strokes) - 1].high > ind_hubs[Len(ind_hubs)].top
       \/ ind_strokes[Len(ind_strokes) - 1].low
             < ind_hubs[Len(ind_hubs)].bottom


\* C37: on no bar is a buy signal set together with a sell signal, and
\* every signal line is 0 on a bar where no fractal is confirmed.
C37_BuyAndSellExclusive ==
    /\ [](~(/\ 1 \in {lines.buy1, lines.buy2, lines.buy3}
            /\ 1 \in {lines.sell1, lines.sell2, lines.sell3}))
    /\ [][(count' = count + 1 /\ ~FractalConfirmed) =>
             /\ lines'.buy1 = 0 /\ lines'.buy2 = 0 /\ lines'.buy3 = 0
             /\ lines'.sell1 = 0 /\ lines'.sell2 = 0 /\ lines'.sell3 = 0]_vars

\* A signal is set on a bar, and the next bar confirms no fractal.
C37_Witness ==
    /\ 1 \in SignalLines
    /\ ~Confirming(count + 1)


\* ------------------------------------------ properties: LiveTradingBroker
\* C38: with the sync thread running _sync_positions concurrently with
\* strategy calls, getposition(data) for a stock that is held in the broker
\* account both before and after a sync never returns an empty Position: no
\* interleaving lets a reader observe the positions map cleared or only
\* partly refilled.
C38_ReaderNeverSeesClearedMap ==
    [][(/\ got' # got
        /\ got'.code = HeldStock
        /\ trader = "connected"
        /\ last_sync >= 1) => got'.size > 0]_vars


\* --------------------------------------------- properties: GridStrategy
\* C39: once the 21 grid lines are created, after any sequence of price
\* bars and order outcomes current_position stays within 1..19, so the
\* neighbour lookups grid_lines[current_position - 1] and
\* grid_lines[current_position + 1] always address the adjacent lower and
\* upper grid line.
C39_CurrentPositionStaysInside ==
    Len(grid_lines) = 21 => current_position \in 1..19

====
